---- MODULE Spec2Model ----
(***************************************************************************)
(* Model of the alien DPoS consensus engine: the voting Snapshot and its   *)
(* apply(headers) state machine (snapshot.go), translated from the source. *)
(*                                                                         *)
(* Go values are modelled by value, except the per-candidate vote lists:   *)
(* Snapshot.copy shares the slices of Candidates between the source        *)
(* snapshot and its copy, so those slices are modelled as (array, len)     *)
(* headers into a heap of backing arrays, with Go's append semantics.      *)
(***************************************************************************)
EXTENDS Integers, Sequences, FiniteSets, TLC

VARIABLES snap, heap, config, pc, pending, last, balance, extra, fin, call, ret

\* the snapshot cache and the call of Alien.snapshot in progress
cacheVars == <<snap, heap, config, pc, pending, last>>
\* the state database, the HeaderExtra being assembled and the last Finalize;
\* the arguments and the result of a call of a function of the snapshot
engineVars == <<balance, extra, fin, call, ret>>

vars == <<snap, heap, config, pc, pending, last, balance, extra, fin, call, ret>>

(***************************************************************************)
(* Bounds of the model.                                                    *)
(***************************************************************************)
MaxNumber == 4      \* highest block number applied
MaxVotes == 1       \* votes carried by one header
MaxCancels == 1     \* cancels carried by one header
MaxChain == 52      \* highest block number of a chain of blocks without transactions
MaxMissing == 2     \* signers named by the SignerMissing of one header
MaxQueue == 3       \* longest signer queue inturn is asked about
MaxEarly == 10      \* seconds a header time may lie before the start of the loop
MaxLate == 15       \* seconds a header time may lie after the start of the loop
MaxHeight == 3      \* highest block number getLastConfirmedBlockNumber is asked at
MaxConfirmers == 4  \* confirmers a snapshot holds for one block
MaxConfirm == 2     \* confirmations carried by the block being finalized
MaxSigners == 3     \* largest max_signer_count a signer queue is created for
MaxMain == 4        \* signers of the main chain a side chain falls back to
MaxBlocks == 6      \* highest block number finalized
MaxTxs == 1         \* custom transactions of one block
MaxBlockTxs == 2    \* transactions of a block handed to processCustomTx on its own
MaxTxHeight == 2    \* highest number of such a block
MaxSealWait == 4    \* seconds after the genesis timestamp the clock of a Seal call runs
MaxVerifyHeight == 5  \* highest header verifySeal is asked about
MaxVerifyQueue == 3   \* longest signer queue of such a header
MaxBatch == 3         \* headers of a batch given to VerifyHeaders
MaxLoopQueue == 4     \* longest signer queue getSignerMissing is asked about
MaxConfirmHeight == 4 \* highest block whose confirm transactions are processed on their own
MaxSpacingHeight == 3 \* highest header whose time is verified against its parent
MaxEpochHeight == 4   \* highest block of a chain built by Finalize
MaxLookupHead == 3    \* highest current header of a chain searched by header time

Addrs == {11, 12, 13}
\* the stake each address votes with
StakeOf == [a \in Addrs |-> IF a = 11 THEN 1 ELSE IF a = 12 THEN 2 ELSE 4]

(***************************************************************************)
(* Program constants (snapshot.go).                                        *)
(***************************************************************************)
defaultFullCredit == 1000
missingPublishCredit == 100
signRewardCredit == 100
autoRewardCredit == 1
minCalSignerQueueCredit == 300

(***************************************************************************)
(* Program constants (custom_tx.go).                                       *)
(***************************************************************************)
ufoMinSplitLen == 3
posEventVote == 3
posEventVoteValue == 4
posEventCancel == 3
posEventConfirm == 3
posEventConfirmNumber == 4

\* uint64 arithmetic wraps. The modulus stands for 2^64: it is far above
\* every block number of the model, so that a wrapped difference compares
\* with Freeze/Period and MaxSignerCount as the 64-bit value does.
Uint64Mod == 2^30
SubU64(a, b) == (a - b) % Uint64Mod

(***************************************************************************)
(* Go maps as functions with a finite domain.                              *)
(***************************************************************************)
EmptyMap == [x \in {} |-> 0]
Put(m, k, v) == [x \in (DOMAIN m) \cup {k} |-> IF x = k THEN v ELSE m[x]]
Del(m, k) == [x \in (DOMAIN m) \ {k} |-> m[x]]

Perms(S) == {f \in [1..Cardinality(S) -> S] : \A i, j \in 1..Cardinality(S) : i # j => f[i] # f[j]}

(***************************************************************************)
(* Go slices of *Vote: a slice header (arr, len) into heap[arr], whose     *)
(* length is the capacity. arr = 0 is the nil slice.                       *)
(***************************************************************************)
NilVote == [Voter |-> 0, Candidate |-> 0, Stake |-> 0, Hash |-> 0]
NilSlice == [arr |-> 0, len |-> 0]

Cap(h, sl) == IF sl.arr = 0 THEN 0 ELSE Len(h[sl.arr])
Elems(h, sl) == IF sl.arr = 0 THEN << >> ELSE SubSeq(h[sl.arr], 1, sl.len)

\* capacity chosen by append when the backing array is full (pointer elements)
GrowCap(cap) == IF cap = 0 THEN 1 ELSE 2 * cap

\* append(sl, v): in place when capacity allows, else into a fresh array
SliceAppend(h, sl, v) ==
    IF sl.len < Cap(h, sl)
    THEN [heap |-> [h EXCEPT ![sl.arr][sl.len + 1] = v],
          slice |-> [sl EXCEPT !.len = sl.len + 1]]
    ELSE LET arr == [i \in 1..GrowCap(Cap(h, sl)) |->
                        IF i <= sl.len THEN h[sl.arr][i]
                        ELSE IF i = sl.len + 1 THEN v ELSE NilVote]
         IN [heap |-> Append(h, arr),
             slice |-> [arr |-> Len(h) + 1, len |-> sl.len + 1]]

\* the loop of removeExtraVotesAndCancel over s.Candidates[candidate]:
\* append(l[:i], l[i+1:]...) shifts the tail left inside the backing array
RECURSIVE RemoveVoterLoop(_, _, _, _)
RemoveVoterLoop(h, sl, canceler, i) ==
    IF i > sl.len THEN [heap |-> h, slice |-> sl]
    ELSE IF h[sl.arr][i].Voter = canceler
         THEN LET shifted == [k \in 1..Len(h[sl.arr]) |->
                                 IF k >= i /\ k < sl.len THEN h[sl.arr][k + 1]
                                 ELSE h[sl.arr][k]]
              IN RemoveVoterLoop([h EXCEPT ![sl.arr] = shifted],
                                 [sl EXCEPT !.len = sl.len - 1], canceler, i + 1)
         ELSE RemoveVoterLoop(h, sl, canceler, i + 1)

(***************************************************************************)
(* Snapshot                                                                *)
(***************************************************************************)
isCandidate(s, address) == address \in DOMAIN s.Candidates
isVoter(s, address) == address \in DOMAIN s.Voters

\* the votes of candidates[c] as the snapshot s sees them through heap h
CandidateVotes(h, s, c) == Elems(h, s.Candidates[c])

\* a snapshot as an observer reads it: every vote list resolved
Observe(h, s) ==
    [s EXCEPT !.Candidates = [c \in DOMAIN s.Candidates |-> CandidateVotes(h, s, c)]]

RECURSIVE GenesisVotesLoop(_, _, _)
GenesisVotesLoop(m, votes, i) ==
    IF i > Len(votes) THEN m
    ELSE LET vote == votes[i]
             s == m.s
             old == IF vote.Candidate \in DOMAIN s.Tally THEN s.Tally[vote.Candidate] ELSE 0
             sl == IF vote.Voter \in DOMAIN s.Candidates THEN s.Candidates[vote.Voter] ELSE NilSlice
             ap == SliceAppend(m.heap, sl, vote)
         IN GenesisVotesLoop(
                [m EXCEPT !.s = [s EXCEPT !.Votes = Put(s.Votes, vote.Voter, vote),
                                          !.Tally = Put(s.Tally, vote.Candidate, old + vote.Stake),
                                          !.Voters = Put(s.Voters, vote.Voter, 0),
                                          !.Candidates = Put(s.Candidates, vote.Voter, ap.slice)],
                          !.heap = ap.heap],
                votes, i + 1)

newSnapshot(cfg, hash, votes, lcrs, now) ==
    LET s0 == [LCRS |-> lcrs,
               Period |-> cfg.Period,
               Number |-> 0,
               ConfirmedNumber |-> 0,
               Hash |-> hash,
               HistoryHash |-> <<hash>>,
               Signers |-> [i \in 1..cfg.MaxSignerCount |->
                               cfg.SelfVoteSigners[((i - 1) % Len(cfg.SelfVoteSigners)) + 1]],
               Votes |-> EmptyMap,
               Tally |-> EmptyMap,
               Voters |-> EmptyMap,
               Cancels |-> EmptyMap,
               Cancelers |-> EmptyMap,
               Candidates |-> EmptyMap,
               Punished |-> EmptyMap,
               Confirmations |-> EmptyMap,
               HeaderTime |-> now - 1,
               LoopStartTime |-> cfg.GenesisTimestamp]
    IN GenesisVotesLoop([s |-> s0, heap |-> << >>, err |-> "none"], votes, 1)

\* copy: every map is rebuilt entry by entry; a Candidates entry is the
\* source's slice header itself, so both snapshots share the backing array
copy(s) ==
    [LCRS |-> s.LCRS,
     Period |-> s.Period,
     Number |-> s.Number,
     ConfirmedNumber |-> s.ConfirmedNumber,
     Hash |-> s.Hash,
     HistoryHash |-> [i \in 1..Len(s.HistoryHash) |-> s.HistoryHash[i]],
     Signers |-> [i \in 1..Len(s.Signers) |-> s.Signers[i]],
     Votes |-> [voter \in DOMAIN s.Votes |->
                   [Voter |-> s.Votes[voter].Voter, Candidate |-> s.Votes[voter].Candidate,
                    Stake |-> s.Votes[voter].Stake, Hash |-> s.Votes[voter].Hash]],
     Tally |-> [candidate \in DOMAIN s.Tally |-> s.Tally[candidate]],
     Voters |-> [voter \in DOMAIN s.Voters |-> s.Voters[voter]],
     Cancels |-> [canceler \in DOMAIN s.Cancels |->
                     [Canceler |-> canceler, Passive |-> s.Cancels[canceler].Passive]],
     Cancelers |-> [canceler \in DOMAIN s.Cancelers |-> s.Cancelers[canceler]],
     Candidates |-> [candidate \in DOMAIN s.Candidates |-> s.Candidates[candidate]],
     Punished |-> [signer \in DOMAIN s.Punished |-> s.Punished[signer]],
     Confirmations |-> [n \in DOMAIN s.Confirmations |-> s.Confirmations[n]],
     HeaderTime |-> s.HeaderTime,
     LoopStartTime |-> s.LoopStartTime]

\* a nil dereference ends the process; the name tells where it happened
Panics == {"panic: updateSnapshotByVotes", "panic: removeExtraVotesAndCancel",
           "panic: verifyTallyCnt"}
\* the errors apply returns
Errors == {"errInvalidVotingChain", "errUnauthorized", "errDecode", "errIncorrectTallyCount"}

(***************************************************************************)
(* Sub-updates of apply. A machine m is [s, heap, err]: the snapshot being *)
(* built, the heap it shares with its source, and "none" or the failure.   *)
(***************************************************************************)
RECURSIVE updateSnapshotByConfirmations(_, _, _)
updateSnapshotByConfirmations(s, confirmations, i) ==
    IF i > Len(confirmations) THEN s
    ELSE LET confirmation == confirmations[i]
             n == confirmation.BlockNumber
             cur == IF n \in DOMAIN s.Confirmations THEN s.Confirmations[n] ELSE << >>
             addConfirmation == \A k \in 1..Len(cur) : cur[k] # confirmation.Signer
             new == IF addConfirmation THEN Append(cur, confirmation.Signer) ELSE cur
         IN updateSnapshotByConfirmations(
                [s EXCEPT !.Confirmations = Put(s.Confirmations, n, new)], confirmations, i + 1)

\* ApplyVote without the test "voter already has a vote": the new vote
\* replaces the recorded one
ApplyVoteReplacing(m, vote, headerNumber) ==
    LET s == m.s IN
    IF ~isCandidate(s, vote.Candidate) /\ vote.Candidate # vote.Voter THEN m
    ELSE IF isCandidate(s, vote.Candidate) /\ vote.Candidate \notin DOMAIN s.Tally
         THEN [m EXCEPT !.err = "panic: updateSnapshotByVotes"]
    ELSE LET tally == IF isCandidate(s, vote.Candidate)
                      THEN Put(s.Tally, vote.Candidate, s.Tally[vote.Candidate] + vote.Stake)
                      ELSE Put(s.Tally, vote.Candidate, vote.Stake)
             sl == IF vote.Candidate \in DOMAIN s.Candidates
                   THEN s.Candidates[vote.Candidate] ELSE NilSlice
             ap == SliceAppend(m.heap, sl, vote)
         IN [m EXCEPT !.s = [s EXCEPT !.Tally = tally,
                                      !.Votes = Put(s.Votes, vote.Voter, vote),
                                      !.Voters = Put(s.Voters, vote.Voter, headerNumber),
                                      !.Candidates = Put(s.Candidates, vote.Candidate, ap.slice)],
                      !.heap = ap.heap]

\* one iteration of the loop of updateSnapshotByVotes; Tally[c].Add on a
\* missing entry dereferences a nil *big.Int
ApplyVote(m, vote, headerNumber) ==
    LET s == m.s IN
    IF vote.Voter \in DOMAIN s.Votes THEN m
    ELSE IF ~isCandidate(s, vote.Candidate) /\ vote.Candidate # vote.Voter THEN m
    ELSE IF isCandidate(s, vote.Candidate) /\ vote.Candidate \notin DOMAIN s.Tally
         THEN [m EXCEPT !.err = "panic: updateSnapshotByVotes"]
    ELSE LET tally == IF isCandidate(s, vote.Candidate)
                      THEN Put(s.Tally, vote.Candidate, s.Tally[vote.Candidate] + vote.Stake)
                      ELSE Put(s.Tally, vote.Candidate, vote.Stake)
             sl == IF vote.Candidate \in DOMAIN s.Candidates
                   THEN s.Candidates[vote.Candidate] ELSE NilSlice
             ap == SliceAppend(m.heap, sl, vote)
         IN [m EXCEPT !.s = [s EXCEPT !.Tally = tally,
                                      !.Votes = Put(s.Votes, vote.Voter, vote),
                                      !.Voters = Put(s.Voters, vote.Voter, headerNumber),
                                      !.Candidates = Put(s.Candidates, vote.Candidate, ap.slice)],
                      !.heap = ap.heap]

RECURSIVE VotesLoop(_, _, _, _)
VotesLoop(m, votes, headerNumber, i) ==
    IF i > Len(votes) \/ m.err # "none" THEN m
    ELSE VotesLoop(ApplyVote(m, votes[i], headerNumber), votes, headerNumber, i + 1)

updateSnapshotByVotes(m, votes, headerNumber) == VotesLoop(m, votes, headerNumber, 1)

\* the passive cancels a candidate's cancel appends to the list being walked
RECURSIVE Cascade(_, _, _)
Cascade(list, canceler, i) ==
    IF i > Len(list) THEN << >>
    ELSE (IF list[i].Voter # canceler
          THEN <<[Canceler |-> list[i].Voter, Passive |-> TRUE]>> ELSE << >>)
         \o Cascade(list, canceler, i + 1)

\* ApplyCancel that records the cancel but leaves the tally as it was
ApplyCancelKeepingTally(m, cancels, headerNumber, i) ==
    LET s == m.s
        x == cancels[i].Canceler
    IN IF x \in DOMAIN s.Cancels THEN [m |-> m, cancels |-> cancels]
       ELSE LET grown == IF isCandidate(s, x)
                         THEN cancels \o Cascade(CandidateVotes(m.heap, s, x), x, 1)
                         ELSE cancels
                s2 == IF x \in DOMAIN s.Votes /\ s.Votes[x].Candidate \in DOMAIN s.Tally
                      THEN [s EXCEPT !.Cancels = Put(s.Cancels, x,
                                         [Canceler |-> x, Passive |-> cancels[i].Passive]),
                                     !.Cancelers = Put(s.Cancelers, x, headerNumber)]
                      ELSE s
            IN [m |-> [m EXCEPT !.s = s2], cancels |-> grown]

\* one iteration of the loop of updateSnapshotByCancels, at position i of the
\* list: the machine and the (possibly grown) list it leaves
ApplyCancel(m, cancels, headerNumber, i) ==
    LET s == m.s
        x == cancels[i].Canceler
    IN IF x \in DOMAIN s.Cancels THEN [m |-> m, cancels |-> cancels]
       ELSE LET grown == IF isCandidate(s, x)
                         THEN cancels \o Cascade(CandidateVotes(m.heap, s, x), x, 1)
                         ELSE cancels
                s2 == IF x \in DOMAIN s.Votes /\ s.Votes[x].Candidate \in DOMAIN s.Tally
                      THEN [s EXCEPT !.Tally[s.Votes[x].Candidate] = @ - s.Votes[x].Stake,
                                     !.Cancels = Put(s.Cancels, x,
                                         [Canceler |-> x, Passive |-> cancels[i].Passive]),
                                     !.Cancelers = Put(s.Cancelers, x, headerNumber)]
                      ELSE s
            IN [m |-> [m EXCEPT !.s = s2], cancels |-> grown]

RECURSIVE CancelsLoop(_, _, _, _)
CancelsLoop(m, cancels, headerNumber, i) ==
    IF i > Len(cancels) THEN m
    ELSE LET r == ApplyCancel(m, cancels, headerNumber, i)
         IN CancelsLoop(r.m, r.cancels, headerNumber, i + 1)

updateSnapshotByCancels(m, cancels, headerNumber) == CancelsLoop(m, cancels, headerNumber, 1)

RECURSIVE PunishMissingLoop(_, _, _)
PunishMissingLoop(punished, signerMissing, i) ==
    IF i > Len(signerMissing) THEN punished
    ELSE LET a == signerMissing[i]
             p == IF a \in DOMAIN punished
                  THEN (IF punished[a] <= 10 * defaultFullCredit
                        THEN Put(punished, a, punished[a] + missingPublishCredit)
                        ELSE punished)
                  ELSE Put(punished, a, missingPublishCredit)
         IN PunishMissingLoop(p, signerMissing, i + 1)

\* updateSnapshotForPunish without "reduce the punish of sign signer"
updateSnapshotForPunishAllAlike(s, signerMissing, headerNumber, coinbase) ==
    LET p1 == PunishMissingLoop(s.Punished, signerMissing, 1)
    IN [s EXCEPT !.Punished = [signerEach \in {a \in DOMAIN p1 : p1[a] > autoRewardCredit} |->
                                  p1[signerEach] - autoRewardCredit]]

updateSnapshotForPunish(s, signerMissing, headerNumber, coinbase) ==
    LET p1 == PunishMissingLoop(s.Punished, signerMissing, 1)
        p2 == IF coinbase \in DOMAIN p1
              THEN (IF p1[coinbase] > signRewardCredit
                    THEN [p1 EXCEPT ![coinbase] = @ - signRewardCredit]
                    ELSE Del(p1, coinbase))
              ELSE p1
        p3 == [signerEach \in {a \in DOMAIN p2 : p2[a] > autoRewardCredit} |->
                  p2[signerEach] - autoRewardCredit]
    IN [s EXCEPT !.Punished = p3]

\* the freeze of canceler has elapsed; s.Number is the field of the snapshot
\* the method runs on, and the subtraction is a uint64 one
FreezeElapsed(s, cfg, canceler) ==
    \/ s.Cancels[canceler].Passive /\ s.Number > s.Cancelers[canceler] + 1
    \/ ~s.Cancels[canceler].Passive
       /\ SubU64(s.Number + 1, s.Cancelers[canceler]) >= cfg.Freeze \div cfg.Period

\* RemoveCanceler that forgets delete(s.Cancels, canceler)
RemoveCancelerKeepingCancel(m, cfg, canceler) ==
    LET s == m.s IN
    IF canceler \notin DOMAIN s.Cancelers
    THEN [m EXCEPT !.err = "panic: removeExtraVotesAndCancel"]
    ELSE IF ~FreezeElapsed(s, cfg, canceler) THEN m
    ELSE IF ~isCandidate(s, canceler) /\ canceler \notin DOMAIN s.Votes
         THEN [m EXCEPT !.err = "panic: removeExtraVotesAndCancel"]
    ELSE LET cleared == [s EXCEPT !.Votes = Del(s.Votes, canceler),
                                  !.Voters = Del(s.Voters, canceler),
                                  !.Cancelers = Del(s.Cancelers, canceler)]
         IN IF isCandidate(s, canceler)
            THEN [m EXCEPT !.s = [cleared EXCEPT !.Punished = Del(s.Punished, canceler),
                                                 !.Candidates = Del(s.Candidates, canceler)]]
            ELSE LET candidate == s.Votes[canceler].Candidate IN
                 IF candidate \notin DOMAIN s.Candidates THEN [m EXCEPT !.s = cleared]
                 ELSE LET rm == RemoveVoterLoop(m.heap, s.Candidates[candidate], canceler, 1)
                      IN [m EXCEPT !.s = [cleared EXCEPT !.Candidates[candidate] = rm.slice],
                                   !.heap = rm.heap]

\* the body of the loop of removeExtraVotesAndCancel for one canceler
RemoveCanceler(m, cfg, canceler) ==
    LET s == m.s IN
    IF canceler \notin DOMAIN s.Cancelers
    THEN [m EXCEPT !.err = "panic: removeExtraVotesAndCancel"]
    ELSE IF ~FreezeElapsed(s, cfg, canceler) THEN m
    ELSE IF ~isCandidate(s, canceler) /\ canceler \notin DOMAIN s.Votes
         THEN [m EXCEPT !.err = "panic: removeExtraVotesAndCancel"]
    ELSE LET cleared == [s EXCEPT !.Votes = Del(s.Votes, canceler),
                                  !.Voters = Del(s.Voters, canceler),
                                  !.Cancels = Del(s.Cancels, canceler),
                                  !.Cancelers = Del(s.Cancelers, canceler)]
         IN IF isCandidate(s, canceler)
            THEN [m EXCEPT !.s = [cleared EXCEPT !.Punished = Del(s.Punished, canceler),
                                                 !.Candidates = Del(s.Candidates, canceler)]]
            ELSE LET candidate == s.Votes[canceler].Candidate IN
                 IF candidate \notin DOMAIN s.Candidates THEN [m EXCEPT !.s = cleared]
                 ELSE LET rm == RemoveVoterLoop(m.heap, s.Candidates[candidate], canceler, 1)
                      IN [m EXCEPT !.s = [cleared EXCEPT !.Candidates[candidate] = rm.slice],
                                   !.heap = rm.heap]

RECURSIVE RemoveLoop(_, _, _, _)
RemoveLoop(m, cfg, order, i) ==
    IF i > Len(order) \/ m.err # "none" THEN m
    ELSE RemoveLoop(RemoveCanceler(m, cfg, order[i]), cfg, order, i + 1)

\* range over the map s.Cancels visits the cancelers in any order
removeExtraVotesAndCancel(m, cfg) ==
    {RemoveLoop(m, cfg, order, 1) : order \in Perms(DOMAIN m.s.Cancels)}

updateSnapshotForExpired(s, cfg) ==
    [s EXCEPT !.Confirmations =
                  [blockNumber \in {n \in DOMAIN s.Confirmations :
                                        ~(SubU64(s.Number, n) > cfg.MaxSignerCount)} |->
                      s.Confirmations[blockNumber]],
              !.Tally = [address \in {a \in DOMAIN s.Tally : ~(s.Tally[a] <= 0)} |-> s.Tally[address]]]

RECURSIVE SumStake(_, _)
SumStake(votes, voters) ==
    IF voters = {} THEN 0
    ELSE LET v == CHOOSE x \in voters : TRUE
         IN votes[v].Stake + SumStake(votes, voters \ {v})

\* tallyTarget of verifyTallyCnt
TallyTarget(s) ==
    [c \in {s.Votes[v].Candidate : v \in DOMAIN s.Votes} |->
        SumStake(s.Votes, {v \in DOMAIN s.Votes : s.Votes[v].Candidate = c})
        - SumStake(s.Votes, {v \in DOMAIN s.Cancels : s.Votes[v].Candidate = c})]

\* verifyTallyCnt that checks that each tallied address has a target, not
\* that the two amounts agree
verifyTallyCntKeysOnly(s) ==
    IF \E c \in DOMAIN s.Cancels : c \notin DOMAIN s.Votes THEN "panic: verifyTallyCnt"
    ELSE IF \A address \in DOMAIN s.Tally : address \in DOMAIN TallyTarget(s)
         THEN "none"
         ELSE "errIncorrectTallyCount"

verifyTallyCnt(s) ==
    IF \E c \in DOMAIN s.Cancels : c \notin DOMAIN s.Votes THEN "panic: verifyTallyCnt"
    ELSE IF \A address \in DOMAIN s.Tally :
                address \in DOMAIN TallyTarget(s) /\ TallyTarget(s)[address] = s.Tally[address]
         THEN "none"
         ELSE "errIncorrectTallyCount"

(***************************************************************************)
(* apply                                                                   *)
(***************************************************************************)
\* ApplyHeaderFields that makes room in the history by dropping its newest
\* hash, not its oldest
ApplyHeaderFieldsDroppingNewest(m, cfg, header) ==
    LET headerExtra == header.Extra
        hist == IF Len(m.s.HistoryHash) >= cfg.MaxSignerCount * 2
                THEN SubSeq(m.s.HistoryHash, 1, cfg.MaxSignerCount * 2 - 1)
                ELSE m.s.HistoryHash
        s1 == [m.s EXCEPT !.HeaderTime = header.Time,
                          !.LoopStartTime = headerExtra.LoopStartTime,
                          !.Signers = headerExtra.SignerQueue,
                          !.ConfirmedNumber = headerExtra.ConfirmedBlockNumber,
                          !.HistoryHash = Append(hist, header.Hash)]
    IN [m EXCEPT !.s = updateSnapshotByConfirmations(s1, headerExtra.CurrentBlockConfirmations, 1)]

\* the head of the loop body of apply: the epoch fields, the history of
\* hashes and the confirmations of the header
ApplyHeaderFields(m, cfg, header) ==
    LET headerExtra == header.Extra
        hist == IF Len(m.s.HistoryHash) >= cfg.MaxSignerCount * 2
                THEN SubSeq(m.s.HistoryHash, 2, cfg.MaxSignerCount * 2)
                ELSE m.s.HistoryHash
        s1 == [m.s EXCEPT !.HeaderTime = header.Time,
                          !.LoopStartTime = headerExtra.LoopStartTime,
                          !.Signers = headerExtra.SignerQueue,
                          !.ConfirmedNumber = headerExtra.ConfirmedBlockNumber,
                          !.HistoryHash = Append(hist, header.Hash)]
    IN [m EXCEPT !.s = updateSnapshotByConfirmations(s1, headerExtra.CurrentBlockConfirmations, 1)]

\* the body of the loop of apply for one header, on the copy. The result is
\* the set of machines the map iteration orders allow.
ApplyHeader(m, cfg, header) ==
    IF m.err # "none" THEN {m}
    ELSE IF header.Signer # header.Coinbase THEN {[m EXCEPT !.err = "errUnauthorized"]}
    ELSE IF ~header.ExtraOK THEN {[m EXCEPT !.err = "errDecode"]}
    ELSE LET headerExtra == header.Extra
             m3 == updateSnapshotByVotes(ApplyHeaderFields(m, cfg, header),
                                         headerExtra.CurrentBlockVotes, header.Number)
         IN IF m3.err # "none" THEN {m3}
            ELSE LET m4 == updateSnapshotByCancels(m3, headerExtra.CurrentBlockCancels,
                                                   header.Number)
                     s5 == updateSnapshotForPunish(m4.s, headerExtra.SignerMissing,
                                                   header.Number, header.Coinbase)
                 IN removeExtraVotesAndCancel([m4 EXCEPT !.s = s5], cfg)

RECURSIVE HeadersLoop(_, _, _, _)
HeadersLoop(ms, cfg, headers, i) ==
    IF i > Len(headers) THEN ms
    ELSE HeadersLoop(UNION {ApplyHeader(m, cfg, headers[i]) : m \in ms}, cfg, headers, i + 1)

\* ApplyFinish that leaves the hash of the source in the result
ApplyFinishKeepingHash(m, headers, cfg) ==
    IF m.err # "none" THEN m
    ELSE LET s1 == [m.s EXCEPT !.Number = m.s.Number + Len(headers)]
             s2 == updateSnapshotForExpired(s1, cfg)
         IN [m EXCEPT !.s = s2, !.err = verifyTallyCnt(s2)]

\* what follows the loop: the final number and hash, expiry, the tally check
ApplyFinish(m, headers, cfg) ==
    IF m.err # "none" THEN m
    ELSE LET s1 == [m.s EXCEPT !.Number = m.s.Number + Len(headers),
                               !.Hash = headers[Len(headers)].Hash]
             s2 == updateSnapshotForExpired(s1, cfg)
         IN [m EXCEPT !.s = s2, !.err = verifyTallyCnt(s2)]

\* apply(headers) on snapshot s over heap h: the set of possible outcomes
\* [s, heap, err]; s is the returned snapshot when err = "none"
apply(s, h, cfg, headers) ==
    IF Len(headers) = 0 THEN {[s |-> s, heap |-> h, err |-> "none"]}
    ELSE IF \E i \in 1..(Len(headers) - 1) : headers[i + 1].Number # headers[i].Number + 1
         THEN {[s |-> s, heap |-> h, err |-> "errInvalidVotingChain"]}
    ELSE IF headers[1].Number # s.Number + 1
         THEN {[s |-> s, heap |-> h, err |-> "errInvalidVotingChain"]}
    ELSE {ApplyFinish(m, headers, cfg) :
             m \in HeadersLoop({[s |-> copy(s), heap |-> h, err |-> "none"]}, cfg, headers, 1)}

\* the same headers applied one at a time, each on the snapshot returned by
\* the previous call
RECURSIVE applyStepwise(_, _, _, _, _)
applyStepwise(s, h, cfg, headers, i) ==
    IF i > Len(headers) THEN {[s |-> s, heap |-> h, err |-> "none"]}
    ELSE UNION {IF o.err # "none" THEN {o} ELSE applyStepwise(o.s, o.heap, cfg, headers, i + 1) :
                   o \in apply(s, h, cfg, <<headers[i]>>)}

(***************************************************************************)
(* The headers a snapshot is asked to apply.                               *)
(***************************************************************************)
GenesisHash == 100
HeaderHash(n) == GenesisHash + n
TxHash(n, i) == 10 * n + i

VoteChoices == {[Voter |-> v, Candidate |-> c, Stake |-> StakeOf[v]] : v \in Addrs, c \in Addrs}
CancelChoices == {[Canceler |-> a, Passive |-> FALSE] : a \in Addrs}

SeqsUpTo(S, n) == UNION {[1..k -> S] : k \in 0..n}

\* what the header numbered n carries: votes and cancels sealed by the
\* in-turn signer, or a block sealed after a missed turn that confirms its
\* parent
Contents(n) ==
    [votes : SeqsUpTo(VoteChoices, MaxVotes),
     cancels : SeqsUpTo(CancelChoices, MaxCancels),
     confirmations : {<< >>},
     missing : {<< >>},
     coinbase : {11}]
    \cup {[votes |-> << >>, cancels |-> << >>,
           confirmations |-> <<[Signer |-> 12, BlockNumber |-> n - 1]>>,
           missing |-> <<11>>, coinbase |-> 12]}

Empty == [votes |-> << >>, cancels |-> << >>, confirmations |-> << >>, missing |-> << >>,
          coinbase |-> 11]

\* a header that carries a single vote, a single cancel, or neither
Light(n) == {c \in Contents(n) : Len(c.votes) + Len(c.cancels) <= 1}

\* the header numbered n built on a chain whose epoch fields are those of s;
\* signer is the address ecrecover returns, extraOK whether Extra decodes
Header(s, cfg, n, c, signer, extraOK) ==
    [Number |-> n,
     Time |-> cfg.GenesisTimestamp + n * cfg.Period,
     Coinbase |-> c.coinbase,
     Signer |-> signer,
     ExtraOK |-> extraOK,
     Hash |-> HeaderHash(n),
     Extra |-> [CurrentBlockConfirmations |-> c.confirmations,
                CurrentBlockVotes |-> [i \in 1..Len(c.votes) |->
                    [Voter |-> c.votes[i].Voter, Candidate |-> c.votes[i].Candidate,
                     Stake |-> c.votes[i].Stake, Hash |-> TxHash(n, i)]],
                CurrentBlockCancels |-> c.cancels,
                LoopStartTime |-> s.LoopStartTime,
                SignerQueue |-> s.Signers,
                SignerMissing |-> c.missing,
                ConfirmedBlockNumber |-> s.ConfirmedNumber]]

Good(s, cfg, n, c) == Header(s, cfg, n, c, c.coinbase, TRUE)

\* headers apply rejects: a seal by another key, an Extra that does not decode
Bad(s, cfg, n) == {Header(s, cfg, n, Empty, 13, TRUE), Header(s, cfg, n, Empty, 11, FALSE)}

HeaderInputs(s, cfg) ==
    LET n == s.Number + 1 IN
    {<<Good(s, cfg, n, c)>> : c \in Contents(n)}
    \cup {<<b>> : b \in Bad(s, cfg, n)}
    \cup {<< >>, <<Good(s, cfg, n + 1, Empty)>>, <<Good(s, cfg, n, Empty), Good(s, cfg, n + 2, Empty)>>}
    \cup (IF n + 1 <= MaxNumber
          THEN {<<Good(s, cfg, n, c1), Good(s, cfg, n + 1, c2)>> :
                   c1 \in Light(n), c2 \in Light(n + 1)}
               \cup {<<Good(s, cfg, n, c1), b>> : c1 \in Light(n), b \in Bad(s, cfg, n + 1)}
          ELSE {})

(***************************************************************************)
(* Alien.snapshot: gather the headers missing since the cached snapshot,   *)
(* apply them, keep the result in the cache.                               *)
(***************************************************************************)
RECURSIVE SortedSeq(_)
SortedSeq(S) ==
    IF S = {} THEN << >>
    ELSE LET x == CHOOSE x \in S : \A y \in S : x <= y
         IN <<x>> \o SortedSeq(S \ {x})

\* the part of heap h that snapshot s can read: its arrays, renumbered in
\* the order of the candidates, with the slots past each slice's length
\* (which no slice of s reaches, and which append overwrites) cleared
Reachable(h, s) ==
    LET cs == SortedSeq(DOMAIN s.Candidates)
        idx(c) == CHOOSE i \in 1..Len(cs) : cs[i] = c
    IN [heap |-> [i \in 1..Len(cs) |->
                     LET sl == s.Candidates[cs[i]]
                     IN [k \in 1..Len(h[sl.arr]) |-> IF k <= sl.len THEN h[sl.arr][k] ELSE NilVote]],
        s |-> [s EXCEPT !.Candidates =
                  [c \in DOMAIN s.Candidates |-> [arr |-> idx(c), len |-> s.Candidates[c].len]]]]

NilSnapshot == [Number |-> -1]

NoExtra == [CurrentBlockVotes |-> << >>, CurrentBlockCancels |-> << >>,
            CurrentBlockConfirmations |-> << >>]
NoFinalize == [number |-> 0]
NoArgs == [fn |-> "none"]
NoResult == [fn |-> "none"]

NoCall == [headers |-> << >>, err |-> "none", srcBefore |-> NilSnapshot, srcAfter |-> NilSnapshot,
           result |-> NilSnapshot, stepErr |-> "none", stepResult |-> NilSnapshot]

Configs ==
    [Period : {5}, Freeze : {5, 10}, MaxSignerCount : {2}, GenesisTimestamp : {1000},
     SelfVoteSigners : {<<11>>}, SelfVoteValue : {StakeOf[11]}]

GenesisVotes(cfg) ==
    [i \in 1..Len(cfg.SelfVoteSigners) |->
        [Voter |-> cfg.SelfVoteSigners[i], Candidate |-> cfg.SelfVoteSigners[i],
         Stake |-> cfg.SelfVoteValue, Hash |-> 0]]

\* nothing finalized, no function called
EngineAtRest ==
    /\ balance = EmptyMap
    /\ extra = NoExtra
    /\ fin = NoFinalize
    /\ call = NoArgs
    /\ ret = NoResult

Init ==
    /\ config \in Configs
    /\ LET g == newSnapshot(config, GenesisHash, GenesisVotes(config), 1, config.GenesisTimestamp + 1)
       IN snap = g.s /\ heap = g.heap
    /\ pc = "idle"
    /\ pending = << >>
    /\ last = NoCall
    /\ EngineAtRest

Gather ==
    /\ pc = "idle"
    /\ snap.Number < MaxNumber
    /\ \E headers \in HeaderInputs(snap, config) : pending' = headers
    /\ pc' = "pending"
    /\ UNCHANGED <<snap, heap, config, last>>
    /\ UNCHANGED engineVars

Apply ==
    /\ pc = "pending"
    /\ \E o \in apply(snap, heap, config, pending) :
       \E st \in applyStepwise(snap, heap, config, pending, 1) :
          /\ last' = [headers |-> pending,
                      err |-> o.err,
                      srcBefore |-> Observe(heap, snap),
                      srcAfter |-> Observe(o.heap, snap),
                      result |-> IF o.err = "none" THEN Observe(o.heap, o.s) ELSE NilSnapshot,
                      stepErr |-> st.err,
                      stepResult |-> IF st.err = "none" THEN Observe(st.heap, st.s) ELSE NilSnapshot]
          /\ snap' = IF o.err = "none" THEN o.s ELSE snap
          /\ heap' = o.heap
    /\ pc' = "done"
    /\ pending' = << >>
    /\ UNCHANGED config
    /\ UNCHANGED engineVars

\* a.recents.Add: back to rest; a panic inside apply ends the process
Store ==
    /\ pc = "done"
    /\ last.err \notin Panics
    /\ LET r == Reachable(heap, snap) IN snap' = r.s /\ heap' = r.heap
    /\ pc' = "idle"
    /\ last' = NoCall
    /\ UNCHANGED <<config, pending>>
    /\ UNCHANGED engineVars

Next == Gather \/ Apply \/ Store

Spec == Init /\ [][Next]_vars

(***************************************************************************)
(* Snapshot.inturn                                                         *)
(***************************************************************************)
\* 2^k modulo m
RECURSIVE Pow2Mod(_, _)
Pow2Mod(k, m) == IF k = 0 THEN 1 % m ELSE (2 * Pow2Mod(k - 1, m)) % m

\* ((a - b) / period) % count in uint64 arithmetic. When a < b the
\* difference wraps to 2^64 - (b - a); its quotient by period is reduced
\* modulo count through the residue of 2^64 modulo period * count.
LoopIndexU64(a, b, period, count) ==
    IF a >= b THEN ((a - b) \div period) % count
    ELSE (((Pow2Mod(64, period * count) - (b - a)) % (period * count)) \div period) % count

inturn(s, cfg, signer, header) ==
    IF header.Coinbase # signer THEN FALSE
    ELSE LET signersCount == Len(s.Signers) IN
         IF signersCount > 0
         THEN s.Signers[LoopIndexU64(header.Time, s.LoopStartTime, cfg.Period, signersCount) + 1] = signer
         ELSE FALSE

\* the snapshots inturn is called on: the genesis snapshot after a header
\* has set its signer queue
InturnConfigs ==
    [Period : {5}, Freeze : {10}, MaxSignerCount : 1..MaxQueue, GenesisTimestamp : {1000},
     SelfVoteSigners : {<<11>>}, SelfVoteValue : {StakeOf[11]}]

InturnCalls ==
    {[fn |-> "inturn",
      cfg |-> cfg,
      s |-> [newSnapshot(cfg, GenesisHash, GenesisVotes(cfg), 1, cfg.GenesisTimestamp + 1).s
                EXCEPT !.Signers = q],
      signer |-> signer,
      header |-> [Coinbase |-> coinbase, Time |-> time]] :
        cfg \in InturnConfigs,
        q \in UNION {[1..k -> {11, 12}] : k \in 0..MaxQueue},
        signer \in {11, 12}, coinbase \in {11, 12},
        time \in (1000 - MaxEarly)..(1000 + MaxLate)}

\* the cache holds the genesis snapshot of a fixed configuration
CacheAtGenesis ==
    /\ config = [Period |-> 5, Freeze |-> 10, MaxSignerCount |-> 2, GenesisTimestamp |-> 1000,
                 SelfVoteSigners |-> <<11>>, SelfVoteValue |-> StakeOf[11]]
    /\ LET g == newSnapshot(config, GenesisHash, GenesisVotes(config), 1, config.GenesisTimestamp + 1)
       IN snap = g.s /\ heap = g.heap
    /\ pc = "idle"
    /\ pending = << >>
    /\ last = NoCall

InturnInit ==
    /\ CacheAtGenesis
    /\ balance = EmptyMap /\ extra = NoExtra /\ fin = NoFinalize
    /\ call \in InturnCalls
    /\ ret = NoResult

CallInturn ==
    /\ call.fn = "inturn" /\ ret = NoResult
    /\ ret' = [fn |-> "inturn", value |-> inturn(call.s, call.cfg, call.signer, call.header)]
    /\ UNCHANGED <<cacheVars, balance, extra, fin, call>>

InturnNext == CallInturn

InturnSpec == InturnInit /\ [][InturnNext]_vars

(***************************************************************************)
(* A chain of blocks without custom transactions, whose signers miss       *)
(* turns: each header is applied to the cached snapshot as it arrives.     *)
(***************************************************************************)
MissingConfigs ==
    [Period : {5}, Freeze : {10}, MaxSignerCount : {2, 3}, GenesisTimestamp : {1000},
     SelfVoteSigners : {<<11>>}, SelfVoteValue : {StakeOf[11]}]

\* the headers of such a chain: sealed by 11 or 12, naming 12 as missing
MissingContents ==
    [votes : {<< >>}, cancels : {<< >>}, confirmations : {<< >>},
     missing : SeqsUpTo({12}, MaxMissing), coinbase : {11, 12}]

MissingInit ==
    /\ config \in MissingConfigs
    /\ LET g == newSnapshot(config, GenesisHash, GenesisVotes(config), 1, config.GenesisTimestamp + 1)
       IN snap = g.s /\ heap = g.heap
    /\ pc = "idle"
    /\ pending = << >>
    /\ last = NoCall
    /\ EngineAtRest

\* Alien.snapshot for the next block of the chain
ApplyMissing ==
    /\ snap.Number < MaxChain
    /\ \E c \in MissingContents :
       \E o \in apply(snap, heap, config, <<Good(snap, config, snap.Number + 1, c)>>) :
          /\ o.err = "none"
          /\ LET r == Reachable(o.heap, o.s) IN snap' = r.s /\ heap' = r.heap
    /\ UNCHANGED <<config, pc, pending, last>>
    /\ UNCHANGED engineVars

MissingNext == ApplyMissing

MissingSpec == MissingInit /\ [][MissingNext]_vars

(***************************************************************************)
(* Snapshot.getLastConfirmedBlockNumber                                    *)
(***************************************************************************)
\* cpyConfirmations: a fresh slice per block number, filled element by element
CopyConfirmations(s) ==
    [blockNumber \in DOMAIN s.Confirmations |->
        [k \in 1..Len(s.Confirmations[blockNumber]) |-> s.Confirmations[blockNumber][k]]]

\* the current block's confirmations enter the copy, one signer once per block
RECURSIVE AddToCopy(_, _, _)
AddToCopy(cpy, confirmations, i) ==
    IF i > Len(confirmations) THEN cpy
    ELSE LET confirmation == confirmations[i]
             n == confirmation.BlockNumber
             cur == IF n \in DOMAIN cpy THEN cpy[n] ELSE << >>
             addConfirmation == \A k \in 1..Len(cur) : cur[k] # confirmation.Signer
         IN AddToCopy(Put(cpy, n, IF addConfirmation THEN Append(cur, confirmation.Signer) ELSE cur),
                      confirmations, i + 1)

\* for ; i > s.Number-s.config.MaxSignerCount*2/3+1; i--
RECURSIVE ConfirmedLoop(_, _, _, _)
ConfirmedLoop(cpy, i, bound, twoThirds) ==
    IF ~(i > bound) THEN i
    ELSE IF i \in DOMAIN cpy /\ Len(cpy[i]) > twoThirds THEN i
    ELSE ConfirmedLoop(cpy, SubU64(i, 1), bound, twoThirds)

\* the result and the snapshot's confirmations as the call leaves them
getLastConfirmedBlockNumber(s, cfg, confirmations) ==
    LET cpy == AddToCopy(CopyConfirmations(s), confirmations, 1)
        twoThirds == (cfg.MaxSignerCount * 2) \div 3
        bound == (SubU64(s.Number, twoThirds) + 1) % Uint64Mod
    IN [value |-> ConfirmedLoop(cpy, s.Number, bound, twoThirds),
        Confirmations |-> s.Confirmations]

ConfirmConfigs ==
    [Period : {5}, Freeze : {10}, MaxSignerCount : {3, 5}, GenesisTimestamp : {1000},
     SelfVoteSigners : {<<11>>}, SelfVoteValue : {StakeOf[11]}]

\* the confirmers a snapshot holds for one block: no address twice
ConfirmerLists == {[k \in 1..n |-> 10 + k] : n \in 0..MaxConfirmers}

\* snapshots at block 0..MaxHeight with confirmations for some of the blocks,
\* and the confirmations of the block being finalized
ConfirmCalls(cfg) ==
    {[fn |-> "getLastConfirmedBlockNumber",
      cfg |-> cfg,
      s |-> [newSnapshot(cfg, GenesisHash, GenesisVotes(cfg), 1, cfg.GenesisTimestamp + 1).s
                EXCEPT !.Number = number, !.Confirmations = confirmed],
      confirmations |-> confirmations] :
        number \in 0..MaxHeight,
        confirmed \in UNION {[H -> ConfirmerLists] : H \in SUBSET (0..MaxHeight)},
        confirmations \in SeqsUpTo([Signer : {13, 14}, BlockNumber : {1, 2}], MaxConfirm)}

ConfirmInit ==
    /\ CacheAtGenesis
    /\ balance = EmptyMap /\ extra = NoExtra /\ fin = NoFinalize
    /\ \E cfg \in ConfirmConfigs : call \in ConfirmCalls(cfg)
    /\ ret = NoResult

CallConfirm ==
    /\ call.fn = "getLastConfirmedBlockNumber" /\ ret = NoResult
    /\ LET r == getLastConfirmedBlockNumber(call.s, call.cfg, call.confirmations)
       IN ret' = [fn |-> "getLastConfirmedBlockNumber", value |-> r.value,
                  Confirmations |-> r.Confirmations]
    /\ UNCHANGED <<cacheVars, balance, extra, fin, call>>

ConfirmNext == CallConfirm

ConfirmSpec == ConfirmInit /\ [][ConfirmNext]_vars

(***************************************************************************)
(* The signer queue: buildTallySlice, createSignerQueue, applyMainTally.   *)
(* A string is a sequence of characters, an address or a hash is a number  *)
(* whose bytes are its big-endian digits in base 256.                      *)
(***************************************************************************)
Digits == <<"0", "1", "2", "3", "4", "5", "6", "7", "8", "9">>
IsDigit(c) == \E i \in 1..10 : Digits[i] = c
DigitValue(c) == (CHOOSE i \in 1..10 : Digits[i] = c) - 1

RECURSIVE DecimalValue(_, _)
DecimalValue(str, n) ==
    IF n = 0 THEN 0 ELSE 10 * DecimalValue(str, n - 1) + DigitValue(str[n])

\* strconv.ParseUint(str, 10, 64): digits only, at least one
ParseUint(str) ==
    IF Len(str) = 0 \/ \E k \in 1..Len(str) : ~IsDigit(str[k])
    THEN [err |-> "ErrSyntax", value |-> 0]
    ELSE [err |-> "none", value |-> DecimalValue(str, Len(str))]

Bytes(x) == <<x \div 256, x % 256>>

\* bytes.Compare on slices of equal length
RECURSIVE BytesCompareFrom(_, _, _)
BytesCompareFrom(x, y, k) ==
    IF k > Len(x) THEN 0
    ELSE IF x[k] < y[k] THEN -1
    ELSE IF x[k] > y[k] THEN 1
    ELSE BytesCompareFrom(x, y, k + 1)

BytesCompare(x, y) == BytesCompareFrom(x, y, 1)

\* TallySlice.Less without the comparison of the addresses
TallyLessStakeOnly(a, b) == a.stake > b.stake

\* TallySlice.Less
TallyLess(a, b) ==
    IF a.stake > b.stake THEN TRUE
    ELSE IF a.stake < b.stake THEN FALSE
    ELSE BytesCompare(Bytes(a.addr), Bytes(b.addr)) > 0

\* SignerSlice.Less
SignerLess(a, b) == BytesCompare(Bytes(a.hash), Bytes(b.hash)) > 0

\* sort.Sort is not stable: every arrangement in which no item comes after
\* an item it is less than; less holds the pairs <<i, j>> of positions with
\* Less(i, j)
SortOutcomes(items, less) ==
    {[i \in 1..Len(items) |-> items[p[i]]] : p \in
        {q \in Perms(1..Len(items)) :
            \A i, j \in 1..Len(items) : i < j => <<q[j], q[i]>> \notin less}}

\* sort.Sort(TallySlice(tallySlice))
SortTally(tallySlice) ==
    SortOutcomes(tallySlice, {ij \in (1..Len(tallySlice)) \X (1..Len(tallySlice)) :
                                 TallyLess(tallySlice[ij[1]], tallySlice[ij[2]])})

\* sort.Sort(SignerSlice(signerSlice))
SortSigners(signerSlice) ==
    SortOutcomes(signerSlice, {ij \in (1..Len(signerSlice)) \X (1..Len(signerSlice)) :
                                  SignerLess(signerSlice[ij[1]], signerSlice[ij[2]])})

\* the stake of one tally entry with the full credit, whatever is punished
TallyItemFullCredit(s, address) ==
    [addr |-> address, stake |-> s.Tally[address] * defaultFullCredit]

\* the weighted stake of one tally entry
TallyItem(s, address) ==
    [addr |-> address,
     stake |-> IF address \in DOMAIN s.Punished
               THEN s.Tally[address] *
                    (IF s.Punished[address] > defaultFullCredit - minCalSignerQueueCredit
                     THEN minCalSignerQueueCredit
                     ELSE defaultFullCredit - s.Punished[address])
               ELSE s.Tally[address] * defaultFullCredit]

\* buildTallySlice: the entries of positive stake in the order the map
\* iteration visits them
buildTallySlice(s) ==
    LET positive == {address \in DOMAIN s.Tally : s.Tally[address] > 0}
    IN {[i \in 1..Cardinality(positive) |-> TallyItem(s, order[i])] : order \in Perms(positive)}

\* position i receives s.HistoryHash[len(s.HistoryHash)-1-i]; the index is
\* out of range when the history is shorter than the list
PairWithHistory(s, addrs) ==
    IF Len(addrs) > Len(s.HistoryHash) THEN [ok |-> FALSE, list |-> << >>]
    ELSE [ok |-> TRUE,
          list |-> [i \in 1..Len(addrs) |->
                      [addr |-> addrs[i], hash |-> s.HistoryHash[Len(s.HistoryHash) - i + 1]]]]

\* the signerSlice before it is sorted by hash: a set of lists
Selection(s, cfg) ==
    IF (s.Number + 1) % (cfg.MaxSignerCount * s.LCRS) = 0
    THEN {PairWithHistory(s, [i \in 1..(IF cfg.MaxSignerCount > Len(sorted) THEN Len(sorted)
                                         ELSE cfg.MaxSignerCount) |-> sorted[i].addr]) :
            sorted \in UNION {SortTally(tallySlice) : tallySlice \in buildTallySlice(s)}}
    ELSE {PairWithHistory(s, s.Signers)}

QueueError(e) == [err |-> e, queue |-> << >>, pairs |-> << >>]

\* the loop that fills topStakeAddress, ending with the signerSlice
ExpandOnce(cfg, signerSlice) ==
    IF Len(signerSlice) = 0 THEN QueueError("panic: integer divide by zero")
    ELSE [err |-> "none",
          queue |-> [i \in 1..(IF Len(signerSlice) < cfg.MaxSignerCount THEN Len(signerSlice)
                               ELSE cfg.MaxSignerCount) |-> signerSlice[i].addr],
          pairs |-> signerSlice]

\* the loop that fills topStakeAddress
Expand(cfg, signerSlice) ==
    IF Len(signerSlice) = 0 THEN QueueError("panic: integer divide by zero")
    ELSE [err |-> "none",
          queue |-> [i \in 1..cfg.MaxSignerCount |-> signerSlice[((i - 1) % Len(signerSlice)) + 1].addr],
          pairs |-> signerSlice]

\* applyMainTally: the signers of the main chain's current snapshot, then
\* the loop of createSignerQueue
applyMainTally(s, cfg, main) ==
    LET paired == PairWithHistory(s, main)
    IN IF ~paired.ok THEN {QueueError("panic: index out of range")}
       ELSE {Expand(cfg, signerSlice) : signerSlice \in SortSigners(paired.list)}

\* createSignerQueue from the sorted signerSlice on
AfterSort(s, cfg, main, signerSlice) ==
    IF Len(signerSlice) = 0
    THEN LET appid == ParseUint(cfg.AppId)
         IN IF appid.err = "none" /\ appid.value <= 100
            THEN applyMainTally(s, cfg, main)
            ELSE {QueueError("errSignerQueueEmpty")}
    ELSE {Expand(cfg, signerSlice)}

\* createSignerQueue: the set of results the map iteration and the sort
\* allow; a result carries the sorted signerSlice next to the queue
createSignerQueue(s, cfg, main) ==
    IF (s.Number + 1) % cfg.MaxSignerCount # 0 \/ s.Hash # s.HistoryHash[Len(s.HistoryHash)]
    THEN {QueueError("errCreateSignerQueueNotAllowed")}
    ELSE UNION {IF ~selected.ok THEN {QueueError("panic: index out of range")}
                ELSE UNION {AfterSort(s, cfg, main, signerSlice) :
                               signerSlice \in SortSigners(selected.list)} :
                selected \in Selection(s, cfg)}

QueueConfigs(appIds) ==
    [Period : {5}, Freeze : {10}, MaxSignerCount : 2..MaxSigners, GenesisTimestamp : {1000},
     SelfVoteSigners : {<<11>>}, SelfVoteValue : {StakeOf[11]}, AppId : appIds]

\* block hashes: no two alike, and their order is not the order of the blocks
QueueHashes == {254 + k : k \in 1..MaxSigners}

\* a history of length L whose newest hashes are those of p
History(L, p) == [i \in 1..L |-> IF L - i < MaxSigners THEN p[MaxSigners - (L - i)] ELSE 300 + i]

HistoryLen(cfg, number) ==
    IF number + 1 < 2 * cfg.MaxSignerCount THEN number + 1 ELSE 2 * cfg.MaxSignerCount

QueueSnapshot(cfg, number, lcrs, p, hashOK, signers, tally, punished) ==
    LET history == History(HistoryLen(cfg, number), p)
    IN [newSnapshot(cfg, GenesisHash, GenesisVotes(cfg), lcrs, cfg.GenesisTimestamp + 1).s
           EXCEPT !.Number = number,
                  !.HistoryHash = history,
                  !.Hash = IF hashOK THEN history[Len(history)] ELSE GenesisHash,
                  !.Signers = signers,
                  !.Tally = tally,
                  !.Punished = punished]

QueueCall(cfg, s, main) == [fn |-> "createSignerQueue", cfg |-> cfg, s |-> s, main |-> main]

GenesisQueue(cfg) == [i \in 1..cfg.MaxSignerCount |-> 11]

Tallies == UNION {[C -> {0, 3, 10}] : C \in SUBSET Addrs}
Punishments == UNION {[C -> {400, 1200}] : C \in SUBSET Addrs}
MainLists == {[k \in 1..n |-> 10 + k] : n \in 1..MaxMain}

\* a loop that recalculates the signers from the tally
RecalcCalls(cfg) ==
    {QueueCall(cfg, QueueSnapshot(cfg, cfg.MaxSignerCount - 1, 1, p, TRUE, GenesisQueue(cfg),
                                  tally, punished), <<11>>) :
        p \in Perms(QueueHashes),
        tally \in Tallies, punished \in Punishments}

\* a loop that keeps the signers and reorders them
ReuseCalls(cfg) ==
    {QueueCall(cfg, QueueSnapshot(cfg, number, 2, p, TRUE, signers, [a \in {11} |-> 3], EmptyMap),
               <<11>>) :
        p \in Perms(QueueHashes),
        number \in {1, 2, 4}, signers \in UNION {[1..n -> Addrs] : n \in 2..MaxSigners}}

\* a side chain without a candidate of positive stake
FallbackCalls(cfg) ==
    {QueueCall(cfg, QueueSnapshot(cfg, number, 1, p, TRUE, GenesisQueue(cfg), tally, EmptyMap),
               main) :
        p \in Perms(QueueHashes),
        number \in {1, 2, 3, 5}, tally \in {EmptyMap, [a \in {11} |-> 0]}, main \in MainLists}

\* a snapshot whose hash is not the newest of its history
StaleCalls(cfg) ==
    {QueueCall(cfg, QueueSnapshot(cfg, cfg.MaxSignerCount - 1, 1, p, FALSE, GenesisQueue(cfg),
                                  [a \in {11} |-> 3], EmptyMap), <<11>>) :
        p \in Perms(QueueHashes)}

\* a main chain has no application id, a side chain has one
QueueCalls(cfg) ==
    {c \in (IF cfg.AppId = << >>
            THEN RecalcCalls(cfg) \cup ReuseCalls(cfg) \cup StaleCalls(cfg)
            ELSE FallbackCalls(cfg)) :
        Len(c.s.Signers) = c.cfg.MaxSignerCount}

QueueInit ==
    /\ CacheAtGenesis
    /\ balance = EmptyMap /\ extra = NoExtra /\ fin = NoFinalize
    /\ \E cfg \in QueueConfigs({<< >>, <<"7">>, <<"1", "0", "1">>, <<"x">>}) : call \in QueueCalls(cfg)
    /\ ret = NoResult

CallCreateSignerQueue ==
    /\ call.fn = "createSignerQueue" /\ ret = NoResult
    /\ \E r \in createSignerQueue(call.s, call.cfg, call.main) :
          ret' = [fn |-> "createSignerQueue", err |-> r.err, queue |-> r.queue, pairs |-> r.pairs]
    /\ UNCHANGED <<cacheVars, balance, extra, fin, call>>

QueueNext == CallCreateSignerQueue

QueueSpec == QueueInit /\ [][QueueNext]_vars

(***************************************************************************)
(* The custom transactions of one block: processCustomTx hands each vote   *)
(* transaction to processEventVote with the votes gathered so far.         *)
(***************************************************************************)
\* tx.To() of a transaction that creates a contract
NilAddress == 0

\* big.Int.SetString(str, 10): an optional sign, then digits, at least one
SetString(str) ==
    LET signed == Len(str) > 0 /\ str[1] \in {"+", "-"}
        parsed == ParseUint(IF signed THEN Tail(str) ELSE str)
    IN IF parsed.err # "none" THEN [ok |-> FALSE, value |-> 0]
       ELSE [ok |-> TRUE, value |-> IF signed /\ str[1] = "-" THEN 0 - parsed.value ELSE parsed.value]

VoteOutcome(result, votes, state) == [result |-> result, votes |-> votes, state |-> state]

\* processEventVote; the fields of txDataInfo are numbered from 1, so the
\* stake txDataInfo[posEventVoteValue] is the field posEventVoteValue + 1
processEventVote(s, cfg, currentBlockVotes, state, tx, voter, txDataInfo) ==
    LET unchanged == VoteOutcome("returned", currentBlockVotes, state) IN
    IF ~(Len(txDataInfo) >= posEventVoteValue) THEN unchanged
    ELSE IF Len(txDataInfo) < posEventVoteValue + 1
    THEN VoteOutcome("panic: index out of range", currentBlockVotes, state)
    ELSE LET parsed == SetString(txDataInfo[posEventVoteValue + 1])
             value == parsed.value
         IN IF ~parsed.ok THEN unchanged
            ELSE IF voter \in DOMAIN s.Votes THEN unchanged
            ELSE IF tx.To = NilAddress
            THEN VoteOutcome("panic: nil pointer dereference", currentBlockVotes, state)
            ELSE IF voter # tx.To /\ value < cfg.MinVoteValue THEN unchanged
            ELSE IF voter # tx.To /\ ~isCandidate(s, tx.To) THEN unchanged
            ELSE IF voter = tx.To /\ value < cfg.SelfVoteValue THEN unchanged
            ELSE IF ~(state[voter] > value) THEN unchanged
            ELSE IF \E k \in 1..Len(currentBlockVotes) : currentBlockVotes[k].Voter = voter
            THEN unchanged
            ELSE VoteOutcome("returned",
                             Append(currentBlockVotes,
                                    [Voter |-> voter, Candidate |-> tx.To, Stake |-> value,
                                     Hash |-> tx.Hash]),
                             [state EXCEPT ![voter] = @ - value])

VoteConfigs ==
    [Period : {5}, Freeze : {10}, MaxSignerCount : {2}, GenesisTimestamp : {1000},
     SelfVoteSigners : {<<11>>}, SelfVoteValue : {3}, MinVoteValue : {2}]

\* the stake field of a vote transaction, character by character
StakeFields ==
    {<<"2">>, <<"3">>, <<"4">>, <<"1", "0">>, <<"-", "3">>, <<"+", "3">>, <<"x">>, << >>}

\* the payloads processCustomTx takes for votes, split at ":"
VoteData ==
    {<<"ufo", "1", "event", "vote">>}
    \cup {<<"ufo", "1", "event", "vote", stake>> : stake \in StakeFields}
    \cup {<<"ufo", "1", "event", "vote", <<"3">>, "memo">>}

VoteTxs ==
    {[Sender |-> sender, To |-> to, Hash |-> 10 * sender + to, Data |-> data] :
        sender \in Addrs, to \in Addrs \cup {NilAddress}, data \in VoteData}

VoteInit ==
    /\ config \in VoteConfigs
    /\ LET g == newSnapshot(config, GenesisHash, GenesisVotes(config), 1, config.GenesisTimestamp + 1)
       IN snap = g.s /\ heap = g.heap
    /\ pc = "idle" /\ pending = << >> /\ last = NoCall
    /\ balance \in [Addrs -> {4, 11}]
    /\ extra = NoExtra /\ fin = NoFinalize /\ call = NoArgs /\ ret = NoResult

\* one vote transaction of the block passes through processCustomTx
ProcessVoteTx ==
    /\ ret.fn = "processEventVote" => ret.result = "returned"
    /\ \E tx \in VoteTxs :
          /\ Len(tx.Data) > ufoMinSplitLen /\ tx.Data[posEventVote + 1] = "vote"
          /\ LET r == processEventVote(snap, config, extra.CurrentBlockVotes, balance, tx,
                                       tx.Sender, tx.Data)
             IN /\ extra' = [extra EXCEPT !.CurrentBlockVotes = r.votes]
                /\ balance' = r.state
                /\ ret' = [fn |-> "processEventVote", result |-> r.result, tx |-> tx,
                           votes |-> extra.CurrentBlockVotes, state |-> balance]
    /\ UNCHANGED <<cacheVars, fin, call>>

VoteNext == ProcessVoteTx

VoteSpec == VoteInit /\ [][VoteNext]_vars

(***************************************************************************)
(* Finalize and the insertion of the sealed block: the chain of one node   *)
(* that seals every block itself, a block carrying at most MaxTxs custom   *)
(* transactions. fin records what the last Finalize did.                   *)
(***************************************************************************)
\* processEventCancel
processEventCancel(currentBlockCancels, canceler, txDataInfo) ==
    IF Len(txDataInfo) >= posEventCancel
       /\ \A k \in 1..Len(currentBlockCancels) : currentBlockCancels[k].Canceler # canceler
    THEN Append(currentBlockCancels, [Canceler |-> canceler, Passive |-> FALSE])
    ELSE currentBlockCancels

\* strconv.Atoi: an optional sign, then digits, at least one
Atoi(str) ==
    LET signed == Len(str) > 0 /\ str[1] \in {"+", "-"}
        parsed == ParseUint(IF signed THEN Tail(str) ELSE str)
    IN IF parsed.err # "none" THEN [err |-> TRUE, value |-> 0]
       ELSE [err |-> FALSE, value |-> IF signed /\ str[1] = "-" THEN 0 - parsed.value ELSE parsed.value]

\* chain.GetHeaderByNumber: chain[k + 1] is the header of block k
NilHeader == [Extra |-> "nil"]
GetHeaderByNumber(chain, n) == IF n + 1 \in DOMAIN chain THEN chain[n + 1] ELSE NilHeader

ConfirmOutcome(result, confirmations) == [result |-> result, confirmations |-> confirmations]

\* processEventConfirm without the test of the age of the confirmed block
processEventConfirmOfAnyAge(currentBlockConfirmations, chain, cfg, txDataInfo, number, confirmer) ==
    LET unchanged == ConfirmOutcome("returned", currentBlockConfirmations) IN
    IF ~(Len(txDataInfo) >= posEventConfirmNumber) THEN unchanged
    ELSE IF Len(txDataInfo) < posEventConfirmNumber + 1
    THEN ConfirmOutcome("panic: index out of range", currentBlockConfirmations)
    ELSE LET parsed == Atoi(txDataInfo[posEventConfirmNumber + 1])
             confirmedBlockNumber == parsed.value % Uint64Mod
             confirmedHeader == GetHeaderByNumber(chain, confirmedBlockNumber)
         IN IF parsed.err THEN unchanged
            ELSE IF confirmedHeader = NilHeader THEN unchanged
            ELSE IF confirmedHeader.Extra # "decoded" THEN unchanged
            ELSE IF \E k \in 1..Len(confirmedHeader.SignerQueue) :
                       confirmedHeader.SignerQueue[k] = confirmer
            THEN ConfirmOutcome("returned",
                                Append(currentBlockConfirmations,
                                       [Signer |-> confirmer, BlockNumber |-> parsed.value]))
            ELSE unchanged

\* processEventConfirm; the fields of txDataInfo are numbered from 1, so the
\* block number txDataInfo[posEventConfirmNumber] is the field
\* posEventConfirmNumber + 1
processEventConfirm(currentBlockConfirmations, chain, cfg, txDataInfo, number, confirmer) ==
    LET unchanged == ConfirmOutcome("returned", currentBlockConfirmations) IN
    IF ~(Len(txDataInfo) >= posEventConfirmNumber) THEN unchanged
    ELSE IF Len(txDataInfo) < posEventConfirmNumber + 1
    THEN ConfirmOutcome("panic: index out of range", currentBlockConfirmations)
    ELSE LET parsed == Atoi(txDataInfo[posEventConfirmNumber + 1])
             confirmedBlockNumber == parsed.value % Uint64Mod
             confirmedHeader == GetHeaderByNumber(chain, confirmedBlockNumber)
         IN IF parsed.err \/ SubU64(number, confirmedBlockNumber) > cfg.MaxSignerCount
            THEN unchanged
            ELSE IF confirmedHeader = NilHeader THEN unchanged
            ELSE IF confirmedHeader.Extra # "decoded" THEN unchanged
            ELSE IF \E k \in 1..Len(confirmedHeader.SignerQueue) :
                       confirmedHeader.SignerQueue[k] = confirmer
            THEN ConfirmOutcome("returned",
                                Append(currentBlockConfirmations,
                                       [Signer |-> confirmer, BlockNumber |-> parsed.value]))
            ELSE unchanged

\* processCustomTx from transaction i on; m is [result, extra, state]. A
\* payload is held as its fields, strings.Split(txData, ":"); the length test
\* on the unsplit payload passes whenever the first field is "ufo"
RECURSIVE processCustomTx(_, _, _, _, _, _, _)
processCustomTx(s, cfg, chain, number, m, txs, i) ==
    IF i > Len(txs) \/ m.result # "returned" THEN m
    ELSE LET tx == txs[i]
             txDataInfo == tx.Data
             event == Len(txDataInfo) >= ufoMinSplitLen /\ txDataInfo[1] = "ufo"
                      /\ txDataInfo[2] = "1" /\ txDataInfo[3] = "event"
                      /\ Len(txDataInfo) > ufoMinSplitLen
         IN IF tx.SenderErr THEN processCustomTx(s, cfg, chain, number, m, txs, i + 1)
            ELSE IF event /\ txDataInfo[posEventVote + 1] = "vote"
            THEN LET r == processEventVote(s, cfg, m.extra.CurrentBlockVotes, m.state, tx,
                                           tx.Sender, txDataInfo)
                 IN processCustomTx(s, cfg, chain, number,
                        [result |-> r.result,
                         extra |-> [m.extra EXCEPT !.CurrentBlockVotes = r.votes],
                         state |-> r.state], txs, i + 1)
            ELSE IF event /\ txDataInfo[posEventCancel + 1] = "cancel"
            THEN processCustomTx(s, cfg, chain, number,
                     [m EXCEPT !.extra.CurrentBlockCancels =
                         processEventCancel(m.extra.CurrentBlockCancels, tx.Sender, txDataInfo)],
                     txs, i + 1)
            ELSE IF event /\ txDataInfo[posEventConfirm + 1] = "confirm"
            THEN LET r == processEventConfirm(m.extra.CurrentBlockConfirmations, chain, cfg,
                                              txDataInfo, number, tx.Sender)
                 IN processCustomTx(s, cfg, chain, number,
                        [m EXCEPT !.result = r.result,
                                  !.extra.CurrentBlockConfirmations = r.confirmations],
                        txs, i + 1)
            ELSE processCustomTx(s, cfg, chain, number, m, txs, i + 1)

\* Finalize, block 1: the self-vote signers that can afford it lock
\* SelfVoteValue
RECURSIVE GenesisDebits(_, _, _, _)
GenesisDebits(cfg, state, alreadyVote, i) ==
    IF i > Len(cfg.SelfVoteSigners) THEN state
    ELSE LET voter == cfg.SelfVoteSigners[i]
         IN IF voter \notin alreadyVote /\ state[voter] >= cfg.SelfVoteValue
            THEN GenesisDebits(cfg, [state EXCEPT ![voter] = @ - cfg.SelfVoteValue],
                               alreadyVote \cup {voter}, i + 1)
            ELSE GenesisDebits(cfg, state, alreadyVote, i + 1)

\* Finalize, "add balance for cancels": the cancelers credited at block number
Unfrozen(s, cfg, number) ==
    {canceler \in DOMAIN s.Cancels :
        /\ \/ s.Cancels[canceler].Passive /\ number = 1 + s.Cancelers[canceler]
           \/ ~s.Cancels[canceler].Passive
              /\ number + 2 = s.Cancelers[canceler] + (cfg.Freeze \div cfg.Period)
        /\ canceler \in DOMAIN s.Votes}

\* the decimal digits of a stake, as the sender of a vote writes them
RECURSIVE Itoa(_)
Itoa(n) == IF n < 10 THEN <<Digits[n + 1]>> ELSE Itoa(n \div 10) \o <<Digits[(n % 10) + 1]>>

FinalizeConfigs ==
    [Period : {5}, Freeze : {5, 10, 15, 20}, MaxSignerCount : {2}, GenesisTimestamp : {1000},
     SelfVoteSigners : {<<11>>}, SelfVoteValue : {StakeOf[11]}, MinVoteValue : {1}]

FinalizeTxs ==
    {[Sender |-> sender, SenderErr |-> FALSE, To |-> to, Hash |-> 10 * sender + to,
      Data |-> <<"ufo", "1", "event", "vote", Itoa(StakeOf[sender])>>] :
        sender \in Addrs, to \in Addrs}
    \cup {[Sender |-> sender, SenderErr |-> FALSE, To |-> sender, Hash |-> 10 * sender,
           Data |-> <<"ufo", "1", "event", "cancel">>] : sender \in Addrs}

AtGenesis == [number |-> 0, stage |-> "inserted", credited |-> {}, owed |-> [a \in Addrs |-> 0],
              Cancels |-> EmptyMap, Cancelers |-> EmptyMap]

FinalizeInit ==
    /\ config \in FinalizeConfigs
    /\ LET g == newSnapshot(config, GenesisHash, GenesisVotes(config), 1, config.GenesisTimestamp + 1)
       IN snap = g.s /\ heap = g.heap
    /\ pc = "idle" /\ pending = << >> /\ last = NoCall
    /\ balance = [a \in Addrs |-> 10]
    /\ extra = NoExtra
    /\ fin = AtGenesis
    /\ call = NoArgs /\ ret = NoResult

\* Finalize of the block after the snapshot's; owed is what each address
\* has locked and not received back
Finalize ==
    /\ fin.stage = "inserted"
    /\ snap.Number < MaxBlocks
    /\ \E txs \in SeqsUpTo(FinalizeTxs, MaxTxs) :
          LET number == snap.Number + 1
              locked == IF number = 1 THEN GenesisDebits(config, balance, {}, 1) ELSE balance
              custom == processCustomTx(snap, config, << >>, number,
                            [result |-> "returned", extra |-> NoExtra, state |-> locked], txs, 1)
              credited == Unfrozen(snap, config, number)
              paid(a) == IF a \in credited THEN snap.Votes[a].Stake ELSE 0
          IN /\ extra' = custom.extra
             /\ balance' = [a \in Addrs |-> custom.state[a] + paid(a)]
             /\ fin' = [number |-> number,
                        stage |-> "sealed",
                        credited |-> credited,
                        owed |-> [a \in Addrs |-> fin.owed[a] + (balance[a] - custom.state[a]) - paid(a)],
                        Cancels |-> snap.Cancels,
                        Cancelers |-> snap.Cancelers]
    /\ UNCHANGED <<cacheVars, call, ret>>

\* the sealed block enters the chain: Alien.snapshot applies its header
InsertBlock ==
    /\ fin.stage = "sealed"
    /\ LET c == [votes |-> extra.CurrentBlockVotes, cancels |-> extra.CurrentBlockCancels,
                 confirmations |-> << >>, missing |-> << >>, coinbase |-> 11]
       IN \E o \in apply(snap, heap, config, <<Good(snap, config, fin.number, c)>>) :
             IF o.err = "none"
             THEN /\ LET r == Reachable(o.heap, o.s) IN snap' = r.s /\ heap' = r.heap
                  /\ fin' = [fin EXCEPT !.stage = "inserted"]
             ELSE /\ snap' = snap /\ heap' = o.heap
                  /\ fin' = [fin EXCEPT !.stage = "failed"]
    /\ extra' = NoExtra
    /\ UNCHANGED <<config, pc, pending, last, balance, call, ret>>

FinalizeNext == Finalize \/ InsertBlock

FinalizeSpec == FinalizeInit /\ [][FinalizeNext]_vars

(***************************************************************************)
(* Snapshot.updateSnapshotForPunish on its own                             *)
(***************************************************************************)
\* punished values around the thresholds of the recovery and of the cap
PunishedValues == {1, 2, 99, 100, 101, 102, 250}

PunishCalls(coinbase) ==
    {[fn |-> "updateSnapshotForPunish",
      s |-> [newSnapshot(config, GenesisHash, GenesisVotes(config), 1, config.GenesisTimestamp + 1).s
                EXCEPT !.Punished = punished],
      signerMissing |-> signerMissing,
      headerNumber |-> 1,
      coinbase |-> coinbase] :
        punished \in UNION {[P -> PunishedValues] : P \in SUBSET Addrs},
        signerMissing \in SeqsUpTo(Addrs, MaxMissing)}

PunishInit ==
    /\ CacheAtGenesis
    /\ balance = EmptyMap /\ extra = NoExtra /\ fin = NoFinalize
    /\ \E coinbase \in Addrs : call \in PunishCalls(coinbase)
    /\ ret = NoResult

CallPunish ==
    /\ call.fn = "updateSnapshotForPunish" /\ ret = NoResult
    /\ ret' = [fn |-> "updateSnapshotForPunish",
               Punished |-> updateSnapshotForPunish(call.s, call.signerMissing, call.headerNumber,
                                                    call.coinbase).Punished]
    /\ UNCHANGED <<cacheVars, balance, extra, fin, call>>

PunishNext == CallPunish

PunishSpec == PunishInit /\ [][PunishNext]_vars

(***************************************************************************)
(* The first block of a node: Alien.snapshot makes the height-0 snapshot   *)
(* on the first call that reaches number 0 and keeps it in recents; only   *)
(* Finalize hands it the genesis votes.                                    *)
(***************************************************************************)
SelfVoteSignerLists == {<<11, 12, 13>>, <<13, 11, 12>>, <<11, 11, 12>>, <<11>>}

GenesisConfigs ==
    [Period : {5}, Freeze : {10}, MaxSignerCount : {2, 3, 4, 5}, GenesisTimestamp : {1000},
     SelfVoteSigners : SelfVoteSignerLists, SelfVoteValue : {5}, MinVoteValue : {1}]

\* balances below, at and above SelfVoteValue
GenesisBalances == [Addrs -> {4, 5, 12}]

\* Finalize, block 1: the votes of the self-vote signers that can afford
\* SelfVoteValue, each signer once
RECURSIVE FinalizeGenesisVotes(_, _, _, _)
FinalizeGenesisVotes(cfg, state, alreadyVote, i) ==
    IF i > Len(cfg.SelfVoteSigners) THEN << >>
    ELSE LET voter == cfg.SelfVoteSigners[i]
         IN IF voter \notin alreadyVote /\ state[voter] >= cfg.SelfVoteValue
            THEN <<[Voter |-> voter, Candidate |-> voter, Stake |-> cfg.SelfVoteValue, Hash |-> 0]>>
                 \o FinalizeGenesisVotes(cfg, [state EXCEPT ![voter] = @ - cfg.SelfVoteValue],
                                         alreadyVote \cup {voter}, i + 1)
            ELSE FinalizeGenesisVotes(cfg, state, alreadyVote, i + 1)

\* some transaction of the block takes processEventVote as far as its
\* call of a.snapshot on the current block
VoteReadsSnapshot(txs) ==
    \E i \in 1..Len(txs) :
        /\ Len(txs[i].Data) > ufoMinSplitLen
        /\ txs[i].Data[1] = "ufo" /\ txs[i].Data[2] = "1" /\ txs[i].Data[3] = "event"
        /\ txs[i].Data[posEventVote + 1] = "vote"
        /\ Len(txs[i].Data) >= posEventVoteValue + 1
        /\ SetString(txs[i].Data[posEventVoteValue + 1]).ok

\* Alien.snapshot at number 0: the snapshot of recents if there is one, else
\* newSnapshot of the votes the caller passed
SnapshotAtZero(cached, h, cfg, genesisVotes) ==
    IF cached.Number # -1 THEN [s |-> cached, heap |-> h]
    ELSE LET g == newSnapshot(cfg, GenesisHash, genesisVotes, 1, cfg.GenesisTimestamp + 1)
         IN [s |-> g.s, heap |-> g.heap]

GenesisInit ==
    /\ config \in GenesisConfigs
    /\ snap = NilSnapshot /\ heap = << >>
    /\ pc = "idle" /\ pending = << >> /\ last = NoCall
    /\ balance \in GenesisBalances
    /\ extra = NoExtra
    /\ fin = [number |-> 0, stage |-> "inserted", before |-> balance, txs |-> << >>]
    /\ call = NoArgs /\ ret = NoResult

\* a caller other than Finalize (verifyCascadingFields on block 1, verifySeal,
\* the API) asks for the snapshot of block 0: genesisVotes is nil
SnapshotWithoutVotes ==
    /\ snap.Number = -1
    /\ LET g == SnapshotAtZero(snap, heap, config, << >>)
       IN snap' = g.s /\ heap' = g.heap
    /\ UNCHANGED <<config, pc, pending, last, balance, extra, fin, call, ret>>

\* Finalize of block 1: the debits and the genesis votes, processCustomTx
\* (whose votes read the snapshot of block 0), then a.snapshot with the
\* genesis votes
FinalizeBlockOne ==
    /\ fin.number = 0
    /\ \E txs \in SeqsUpTo(FinalizeTxs, MaxTxs) :
          LET genesisVotes == FinalizeGenesisVotes(config, balance, {}, 1)
              locked == GenesisDebits(config, balance, {}, 1)
              early == IF VoteReadsSnapshot(txs)
                       THEN SnapshotAtZero(snap, heap, config, << >>)
                       ELSE [s |-> snap, heap |-> heap]
              read == SnapshotAtZero(early.s, early.heap, config, << >>)
              custom == processCustomTx(read.s, config, << >>, 1,
                            [result |-> "returned", extra |-> NoExtra, state |-> locked], txs, 1)
              g == SnapshotAtZero(early.s, early.heap, config, genesisVotes)
          IN /\ snap' = g.s /\ heap' = g.heap
             /\ extra' = custom.extra
             /\ balance' = custom.state
             /\ fin' = [number |-> 1, stage |-> "sealed", before |-> balance, txs |-> txs]
    /\ UNCHANGED <<config, pc, pending, last, call, ret>>

GenesisNext == SnapshotWithoutVotes \/ FinalizeBlockOne

GenesisSpec == GenesisInit /\ [][GenesisNext]_vars

(***************************************************************************)
(* processCustomTx over the transactions of one block, well-formed and not *)
(***************************************************************************)
\* payloads that carry a vote, a cancel or a confirmation in full
WellFormedData ==
    {<<"ufo", "1", "event", "vote", <<"3">>>>,
     <<"ufo", "1", "event", "cancel">>,
     <<"ufo", "1", "event", "confirm", <<"0">>>>,
     <<"ufo", "1", "event", "confirm", <<"1">>>>}

\* an event without its argument
TruncatedData ==
    {<<"ufo", "1", "event", "vote">>, <<"ufo", "1", "event", "confirm">>}

\* arguments that are no number or no block of the chain, unknown actions,
\* categories, versions and prefixes
MalformedData ==
    {<<"ufo", "1", "event", "vote", <<"x">>>>,
     <<"ufo", "1", "event", "confirm", <<"x">>>>,
     <<"ufo", "1", "event", "confirm", <<"-", "1">>>>,
     <<"ufo", "1", "event", "confirm", <<"9">>>>,
     <<"ufo", "1", "event", "burn", <<"3">>>>,
     <<"ufo", "1", "event">>,
     <<"ufo", "1", "oplog", "x">>,
     <<"ufo", "1", "sc", "confirm", "h", "n">>,
     <<"ufo", "2", "event", "vote", <<"3">>>>,
     <<"hello">>}

CustomTxs ==
    {[Sender |-> sender, SenderErr |-> FALSE, To |-> to, Hash |-> 10 * sender + to, Data |-> data] :
        sender \in {11, 12}, to \in {11, 12},
        data \in WellFormedData \cup TruncatedData \cup MalformedData}
    \cup {[Sender |-> NilAddress, SenderErr |-> TRUE, To |-> 11, Hash |-> 1, Data |-> data] :
             data \in {<<"ufo", "1", "event", "cancel">>, <<"ufo", "1", "event", "vote">>}}

\* the headers below block number: the genesis header, whose extra data
\* holds no HeaderExtra, then headers with a signer queue
CustomChains(number) ==
    {<<[Extra |-> "undecodable"]>> \o rest :
        rest \in [1..(number - 1) -> {[Extra |-> "decoded", SignerQueue |-> q] :
                                         q \in {<<11>>, <<11, 12>>}}]}

CustomTxCalls(number) ==
    {[fn |-> "processCustomTx", txs |-> txs, number |-> number, chain |-> chain] :
        txs \in SeqsUpTo(CustomTxs, MaxBlockTxs), chain \in CustomChains(number)}

CustomTxInit ==
    /\ config \in VoteConfigs
    /\ LET g == newSnapshot(config, GenesisHash, GenesisVotes(config), 1, config.GenesisTimestamp + 1)
       IN snap = g.s /\ heap = g.heap
    /\ pc = "idle" /\ pending = << >> /\ last = NoCall
    /\ balance = [a \in Addrs |-> 11]
    /\ extra = NoExtra /\ fin = NoFinalize
    /\ \E number \in 1..MaxTxHeight : call \in CustomTxCalls(number)
    /\ ret = NoResult

\* Finalize hands the transactions of the block to processCustomTx
CallProcessCustomTx ==
    /\ call.fn = "processCustomTx" /\ ret = NoResult
    /\ LET r == processCustomTx(snap, config, call.chain, call.number,
                    [result |-> "returned", extra |-> NoExtra, state |-> balance], call.txs, 1)
       IN /\ ret' = [fn |-> "processCustomTx", result |-> r.result]
          /\ extra' = r.extra
          /\ balance' = r.state
    /\ UNCHANGED <<cacheVars, fin, call>>

CustomTxNext == CallProcessCustomTx

CustomTxSpec == CustomTxInit /\ [][CustomTxNext]_vars

(***************************************************************************)
(* The block reward: accumulateRewards and Snapshot.calculateReward.       *)
(* Amounts are big.Int in the source. SignerBlockReward, 25 * 10^18, is    *)
(* held shifted right by FirstRewardYear bits, which is its value for the  *)
(* blocks of that year; the blocks of the model lie in that year or later, *)
(* down to the years in which the reward is 1 and 0.                       *)
(***************************************************************************)
SecondsPerYear == 2 * 365 * 24 * 3600
MinerRewardPerThousand == 618
RewardCutOff == 1507109
FirstRewardYear == 43
SignerBlockRewardThatYear == 2842170

RECURSIVE Rsh(_, _)
Rsh(x, n) == IF n = 0 THEN x ELSE Rsh(x \div 2, n - 1)

RECURSIVE SumOver(_, _)
SumOver(f, S) ==
    IF S = {} THEN 0 ELSE LET x == CHOOSE x \in S : TRUE IN f[x] + SumOver(f, S \ {x})

\* the voters calculateReward gives a share to
Rewarded(s, coinbase) ==
    {voter \in DOMAIN s.Votes :
        IF s.Number >= RewardCutOff
        THEN s.Votes[voter].Candidate = coinbase /\ voter \notin DOMAIN s.Cancelers
        ELSE s.Votes[voter].Candidate = coinbase}

\* calculateReward with every share rounded up
calculateRewardRoundingUp(s, coinbase, votersReward) ==
    LET rewards == Rewarded(s, coinbase)
        allStake == SumOver([voter \in rewards |-> s.Votes[voter].Stake], rewards)
    IN IF rewards # {} /\ allStake = 0
       THEN [result |-> "panic: division by zero", rewards |-> EmptyMap]
       ELSE [result |-> "returned",
             rewards |-> [voter \in rewards |->
                             (s.Votes[voter].Stake * votersReward + allStake - 1) \div allStake]]

\* calculateReward: stake * votersReward / allStake for each such voter
calculateReward(s, coinbase, votersReward) ==
    LET rewards == Rewarded(s, coinbase)
        allStake == SumOver([voter \in rewards |-> s.Votes[voter].Stake], rewards)
    IN IF rewards # {} /\ allStake = 0
       THEN [result |-> "panic: division by zero", rewards |-> EmptyMap]
       ELSE [result |-> "returned",
             rewards |-> [voter \in rewards |-> (s.Votes[voter].Stake * votersReward) \div allStake]]

\* accumulateRewards on the balances of state
accumulateRewards(cfg, state, header, s) ==
    LET blockNumPerYear == SecondsPerYear \div cfg.Period
        yearCount == header.Number \div blockNumPerYear
        blockReward == Rsh(SignerBlockRewardThatYear, yearCount - FirstRewardYear)
        minerReward == (blockReward * MinerRewardPerThousand) \div 1000
        votersReward == blockReward - minerReward
        shares == calculateReward(s, header.Coinbase, votersReward)
        share(a) == IF a \in DOMAIN shares.rewards THEN shares.rewards[a] ELSE 0
    IN IF cfg.SideChain
       THEN [result |-> "returned", blockReward |-> blockReward, minerReward |-> blockReward,
             rewards |-> EmptyMap,
             state |-> [state EXCEPT ![header.Coinbase] = @ + blockReward]]
       ELSE [result |-> shares.result, blockReward |-> blockReward, minerReward |-> minerReward,
             rewards |-> shares.rewards,
             state |-> IF shares.result # "returned" THEN state
                       ELSE [a \in DOMAIN state |->
                                state[a] + share(a) + IF a = header.Coinbase THEN minerReward ELSE 0]]

RewardConfigs == [Period : {5, 10}, SideChain : {FALSE, TRUE}]

\* years from FirstRewardYear to the first without a reward
RewardYears == {43, 50, 60, 61, 62, 63, 64, 65, 66}

\* votes of some of the addresses, each for one of them
RewardVotes ==
    UNION {[V -> [Candidate : Addrs, Stake : {1, 3}]] : V \in SUBSET Addrs}

\* the snapshot of a block as far as the reward reads it
RewardSnapshot(number, votes, cancelers) ==
    [Number |-> number, Votes |-> votes, Cancelers |-> [c \in cancelers |-> number]]

\* Finalize of a block of one of those years, first or second of the year
AccumulateCalls(cfg) ==
    {[fn |-> "accumulateRewards",
      cfg |-> cfg,
      header |-> [Number |-> number, Coinbase |-> coinbase],
      s |-> RewardSnapshot(number - 1, votes, cancelers)] :
        number \in {year * (SecondsPerYear \div cfg.Period) + d : year \in RewardYears, d \in {0, 1}},
        coinbase \in {11, 12},
        votes \in RewardVotes,
        cancelers \in SUBSET {11, 12}}

\* calculateReward on snapshots around the cut-off
CalculateCalls ==
    {[fn |-> "calculateReward",
      s |-> RewardSnapshot(number, votes, cancelers),
      coinbase |-> coinbase,
      votersReward |-> votersReward] :
        number \in {RewardCutOff - 1, RewardCutOff, RewardCutOff + 1},
        coinbase \in {11, 12},
        votes \in RewardVotes,
        cancelers \in SUBSET {11, 12},
        votersReward \in {0, 1, 10}}

RewardInit ==
    /\ CacheAtGenesis
    /\ balance = [a \in Addrs |-> 0] /\ extra = NoExtra /\ fin = NoFinalize
    /\ \/ \E cfg \in RewardConfigs : call \in AccumulateCalls(cfg)
       \/ call \in CalculateCalls
    /\ ret = NoResult

CallAccumulateRewards ==
    /\ call.fn = "accumulateRewards" /\ ret = NoResult
    /\ LET r == accumulateRewards(call.cfg, balance, call.header, call.s)
       IN /\ ret' = [fn |-> "accumulateRewards", result |-> r.result, blockReward |-> r.blockReward,
                     minerReward |-> r.minerReward, rewards |-> r.rewards]
          /\ balance' = r.state
    /\ UNCHANGED <<cacheVars, extra, fin, call>>

CallCalculateReward ==
    /\ call.fn = "calculateReward" /\ ret = NoResult
    /\ LET r == calculateReward(call.s, call.coinbase, call.votersReward)
       IN ret' = [fn |-> "calculateReward", result |-> r.result, rewards |-> r.rewards]
    /\ UNCHANGED <<cacheVars, balance, extra, fin, call>>

RewardNext == CallAccumulateRewards \/ CallCalculateReward

RewardSpec == RewardInit /\ [][RewardNext]_vars

(***************************************************************************)
(* Alien.Seal: one call, the clock and the stop channel. fin holds the     *)
(* clock and whether stop is closed; pc is the point the call has reached. *)
(***************************************************************************)
SealConfigs ==
    [Period : {5}, Freeze : {10}, MaxSignerCount : {2}, GenesisTimestamp : {1000},
     SelfVoteSigners : {<<11, 12>>}, SelfVoteValue : {StakeOf[11]}, SideChain : {FALSE, TRUE}]

\* getMainChainSnapshotByTime: what mcInturn reads of the main chain
NoMainSnapshot == [err |-> "main chain snapshot query fail"]
MainSnapshots ==
    {NoMainSnapshot,
     [err |-> "none", Signers |-> <<12, 11>>, LoopStartTime |-> 1000, Period |-> 5]}

mcInturn(cfg, ms, signer, headerTime) ==
    IF ~cfg.SideChain THEN FALSE
    ELSE IF ms.err # "none" THEN FALSE
    ELSE ms.Signers[LoopIndexU64(headerTime, ms.LoopStartTime, ms.Period, Len(ms.Signers)) + 1] = signer

SealCalls ==
    {[fn |-> "Seal",
      number |-> number,
      txs |-> txs,
      header |-> [Coinbase |-> coinbase, Time |-> time],
      signer |-> signer,
      ancestor |-> ancestor,
      ms |-> ms,
      signFn |-> signFn] :
        number \in {0, 1}, txs \in {0, 1}, coinbase \in {11, 12}, time \in {995, 1000, 1002},
        signer \in {11, 12}, ancestor \in BOOLEAN, ms \in MainSnapshots,
        signFn \in {"signature", "error"}}

SealInit ==
    /\ config \in SealConfigs
    /\ LET g == newSnapshot(config, GenesisHash, GenesisVotes(config), 1, config.GenesisTimestamp + 1)
       IN snap = g.s /\ heap = g.heap
    /\ pc = "idle" /\ pending = << >> /\ last = NoCall
    /\ balance = EmptyMap /\ extra = NoExtra
    /\ \E now \in {996, 1001} : fin = [now |-> now, stop |-> FALSE]
    /\ call \in SealCalls
    /\ ret = NoResult

\* what Seal returns; seal is the signature in the seal slot of the header,
\* 0 when none was written
SealReturn(block, err, seal) ==
    [fn |-> "Seal", block |-> block, err |-> err, seal |-> seal, now |-> fin.now, stop |-> fin.stop]

\* Seal up to the channel it blocks on
SealEnter ==
    /\ pc = "idle" /\ call.fn = "Seal"
    /\ IF call.number = 0
       THEN pc' = "returned" /\ ret' = SealReturn("nil", "errUnknownBlock", 0)
       ELSE IF config.Period = 0 /\ call.txs = 0
       THEN pc' = "returned" /\ ret' = SealReturn("nil", "errWaitTransactions", 0)
       ELSE IF ~call.ancestor
       THEN pc' = "returned" /\ ret' = SealReturn("nil", "ErrUnknownAncestor", 0)
       ELSE IF (~config.SideChain /\ ~inturn(snap, config, call.signer, call.header))
               \/ (config.SideChain /\ ~mcInturn(config, call.ms, call.signer, call.header.Time))
       THEN pc' = "stop" /\ ret' = ret
       ELSE pc' = "select" /\ ret' = ret
    /\ UNCHANGED <<snap, heap, config, pending, last, balance, extra, fin, call>>

\* out of turn: <-stop, then errUnauthorized
SealUnauthorized ==
    /\ pc = "stop" /\ fin.stop
    /\ pc' = "returned" /\ ret' = SealReturn("nil", "errUnauthorized", 0)
    /\ UNCHANGED <<snap, heap, config, pending, last, balance, extra, fin, call>>

\* select, case <-stop
SealStopped ==
    /\ pc = "select" /\ fin.stop
    /\ pc' = "returned" /\ ret' = SealReturn("nil", "none", 0)
    /\ UNCHANGED <<snap, heap, config, pending, last, balance, extra, fin, call>>

\* SealSign with a timer that has fired whatever the time of the header
SealSignWithoutWaiting ==
    /\ pc = "select"
    /\ pc' = "returned"
    /\ ret' = IF call.signFn = "error" THEN SealReturn("nil", "signFn", 0)
              ELSE SealReturn("signed", "none", call.signer)
    /\ UNCHANGED <<snap, heap, config, pending, last, balance, extra, fin, call>>

\* select, case <-time.After(delay): the timer fires at header.Time; then
\* signFn and the copy into the seal slot
SealSign ==
    /\ pc = "select" /\ fin.now >= call.header.Time
    /\ pc' = "returned"
    /\ ret' = IF call.signFn = "error" THEN SealReturn("nil", "signFn", 0)
              ELSE SealReturn("signed", "none", call.signer)
    /\ UNCHANGED <<snap, heap, config, pending, last, balance, extra, fin, call>>

\* a second passes
Tick ==
    /\ fin.now < config.GenesisTimestamp + MaxSealWait
    /\ fin' = [fin EXCEPT !.now = @ + 1]
    /\ UNCHANGED <<cacheVars, balance, extra, call, ret>>

\* the caller closes stop
CloseStop ==
    /\ ~fin.stop
    /\ fin' = [fin EXCEPT !.stop = TRUE]
    /\ UNCHANGED <<cacheVars, balance, extra, call, ret>>

SealNext == SealEnter \/ SealUnauthorized \/ SealStopped \/ SealSign \/ Tick \/ CloseStop

SealSpec == SealInit /\ [][SealNext]_vars

\* a goroutine that can receive from a channel is scheduled: the receive
\* from stop and the two cases of the select
SealFairSpec ==
    SealSpec /\ WF_vars(SealUnauthorized) /\ WF_vars(SealStopped) /\ WF_vars(SealSign)

(***************************************************************************)
(* Alien.verifySeal on the main chain: the signer queue and the missing    *)
(* signers of a header against its parent and the parent snapshot.         *)
(***************************************************************************)
\* getSignerMissing: the signers of the queue between lastSigner and
\* currentSigner, from position i on
RECURSIVE SignerMissingLoop(_, _, _, _, _, _)
SignerMissingLoop(queue, lastSigner, currentSigner, recordMissing, signerMissing, i) ==
    IF i > Len(queue) THEN signerMissing
    ELSE IF queue[i] = lastSigner
    THEN SignerMissingLoop(queue, lastSigner, currentSigner, TRUE, signerMissing, i + 1)
    ELSE IF queue[i] = currentSigner THEN signerMissing
    ELSE SignerMissingLoop(queue, lastSigner, currentSigner, recordMissing,
                           IF recordMissing THEN Append(signerMissing, queue[i]) ELSE signerMissing,
                           i + 1)

getSignerMissing(lastSigner, currentSigner, extraOfParent) ==
    SignerMissingLoop(extraOfParent.SignerQueue, lastSigner, currentSigner, FALSE, << >>, 1)

\* verifySignerQueue: the errors createSignerQueue and the comparison allow
verifySignerQueue(s, cfg, main, signerQueue) ==
    IF Len(signerQueue) > cfg.MaxSignerCount THEN {"errInvalidSignerQueue"}
    ELSE {IF r.err # "none" THEN r.err
          ELSE IF Len(r.queue) = 0 \/ Len(r.queue) # Len(signerQueue) THEN "errInvalidSignerQueue"
          ELSE IF \E i \in 1..Len(signerQueue) : signerQueue[i] # r.queue[i]
          THEN "errInvalidSignerQueue"
          ELSE "none" :
             r \in createSignerQueue(s, cfg, main)}

\* verifySeal between two loop boundaries: the first MaxSignerCount entries
\* of the two queues, one index after the other
RECURSIVE SameQueueLoop(_, _, _, _)
SameQueueLoop(cfg, parentQueue, currentQueue, i) ==
    IF i > cfg.MaxSignerCount THEN "none"
    ELSE IF i > Len(parentQueue) \/ i > Len(currentQueue) THEN "panic: index out of range"
    ELSE IF parentQueue[i] # currentQueue[i] THEN "errInvalidSignerQueue"
    ELSE SameQueueLoop(cfg, parentQueue, currentQueue, i + 1)

\* verifySeal: "verify missing signer for punish"
VerifyMissing(parent, header) ==
    LET parentSignerMissing == getSignerMissing(parent.Coinbase, header.Coinbase, parent.Extra)
    IN IF Len(parentSignerMissing) # Len(header.Extra.SignerMissing) THEN "errPunishedMissing"
       ELSE IF \E i \in 1..Len(parentSignerMissing) :
                  parentSignerMissing[i] # header.Extra.SignerMissing[i]
       THEN "errPunishedMissing"
       ELSE "none"

\* verifySeal of a main-chain header whose parent snapshot is s: the errors
\* it can return, "none" when the header is accepted
verifySeal(s, cfg, main, number, header, parent, signer) ==
    IF number = 0 THEN {"errUnknownBlock"}
    ELSE IF signer = NilAddress THEN {"ecrecover"}
    ELSE LET queue == IF number > cfg.MaxSignerCount
                      THEN IF number % cfg.MaxSignerCount = 0
                           THEN verifySignerQueue(s, cfg, main, header.Extra.SignerQueue)
                           ELSE {SameQueueLoop(cfg, parent.Extra.SignerQueue,
                                               header.Extra.SignerQueue, 1)}
                      ELSE {"none"}
             missing == IF number > cfg.MaxSignerCount THEN VerifyMissing(parent, header)
                        ELSE "none"
         IN {IF e # "none" THEN e
             ELSE IF missing # "none" THEN missing
             ELSE IF ~inturn(s, cfg, signer, header) THEN "errUnauthorized"
             ELSE "none" : e \in queue}

VerifyConfig ==
    [Period |-> 5, Freeze |-> 10, MaxSignerCount |-> 2, GenesisTimestamp |-> 1000,
     SelfVoteSigners |-> <<11>>, SelfVoteValue |-> StakeOf[11], AppId |-> << >>]

\* parent snapshots: the hashes of the newest blocks in two orders
VerifySnapshots(cfg, number) ==
    {QueueSnapshot(cfg, number - 1, 1, p, TRUE, signers, tally, EmptyMap) :
        p \in {q \in Perms(QueueHashes) : q[1] = 255},
        signers \in {<<11, 12>>, <<12, 11>>},
        tally \in {[a \in {11, 12} |-> 3], [a \in {11} |-> 3]}}

VerifiedHeaders ==
    [Coinbase : {11, 12}, Time : {1000, 1005},
     Extra : [SignerQueue : SeqsUpTo({11, 12}, MaxVerifyQueue),
              SignerMissing : SeqsUpTo({11, 12}, 1)]]

\* parents: below the first loop boundary a header carries no queue
VerifyParents(cfg, number) ==
    [Coinbase : {11, 12},
     Extra : [SignerQueue : IF number - 1 < cfg.MaxSignerCount THEN {<< >>}
                            ELSE {<<11, 12>>, <<12, 11>>}]]

VerifyCalls(cfg, number) ==
    {[fn |-> "verifySeal", cfg |-> cfg, number |-> number, s |-> s, header |-> header,
      parent |-> parent, signer |-> signer] :
        s \in VerifySnapshots(cfg, number), header \in VerifiedHeaders,
        parent \in VerifyParents(cfg, number), signer \in {NilAddress, 11, 12}}

VerifyInit ==
    /\ CacheAtGenesis
    /\ balance = EmptyMap /\ extra = NoExtra /\ fin = NoFinalize
    /\ \E number \in 1..MaxVerifyHeight : call \in VerifyCalls(VerifyConfig, number)
    /\ ret = NoResult

CallVerifySeal ==
    /\ call.fn = "verifySeal" /\ ret = NoResult
    /\ \E e \in verifySeal(call.s, call.cfg, <<11>>, call.number, call.header, call.parent,
                           call.signer) :
          ret' = [fn |-> "verifySeal", err |-> e]
    /\ UNCHANGED <<cacheVars, balance, extra, fin, call>>

VerifyNext == CallVerifySeal

VerifySpec == VerifyInit /\ [][VerifyNext]_vars

(***************************************************************************)
(* Alien.VerifyHeaders: the goroutine that verifies a batch, the results   *)
(* channel (pending) and the abort channel. fin holds the index and the    *)
(* error the goroutine is at, whether abort is closed, and which headers   *)
(* it has started to verify.                                               *)
(***************************************************************************)
\* a header of a batch as verifyHeader reads it: Linked says that the
\* header names the header before it (the chain head for the first) as its
\* parent, InTurn that its seal is of the signer in turn
BatchHeaders == [Time : {1005, 1015}, MixDigest : {0, 1}, Linked : BOOLEAN, InTurn : BOOLEAN]

\* the head of the chain the batch extends
BatchParent == [Time |-> 1000, MixDigest |-> 0, Linked |-> TRUE, InTurn |-> TRUE]

\* verifyHeader of headers[i] with headers[:i] as parents. Alien.snapshot
\* walks the parents back to a snapshot it holds and finds the ancestors only
\* if each header before names its predecessor; apply does not look at the
\* time, the mix digest or the turn of the headers it walks over
verifyHeader(headers, i, now) ==
    LET header == headers[i]
        parent == IF i = 1 THEN BatchParent ELSE headers[i - 1]
    IN IF header.Time > now THEN "ErrFutureBlock"
       ELSE IF header.MixDigest # 0 THEN "errInvalidMixDigest"
       ELSE IF ~header.Linked THEN "ErrUnknownAncestor"
       ELSE IF parent.Time > header.Time THEN "ErrInvalidTimestamp"
       ELSE IF \E k \in 1..(i - 1) : ~headers[k].Linked THEN "ErrUnknownAncestor"
       ELSE IF ~header.InTurn THEN "errUnauthorized"
       ELSE "nil"

BatchCalls ==
    {[fn |-> "VerifyHeaders", headers |-> headers, now |-> 1010] :
        headers \in UNION {[1..n -> BatchHeaders] : n \in 1..MaxBatch}}

BatchInit ==
    /\ CacheAtGenesis
    /\ balance = EmptyMap /\ extra = NoExtra
    /\ call \in BatchCalls
    /\ fin = [i |-> 1, err |-> "nil", abort |-> FALSE, started |-> {}, late |-> {}, at |-> 0]
    /\ ret = [fn |-> "results", received |-> << >>]

\* err := a.verifyHeader(chain, header, headers[:i])
WorkerVerify ==
    /\ call.fn = "VerifyHeaders" /\ pc = "idle" /\ fin.i <= Len(call.headers)
    /\ pc' = "select"
    /\ fin' = [fin EXCEPT !.err = verifyHeader(call.headers, fin.i, call.now),
                          !.started = @ \cup {fin.i},
                          !.late = IF fin.abort THEN @ \cup {fin.i} ELSE @]
    /\ UNCHANGED <<snap, heap, config, pending, last, balance, extra, call, ret>>

\* the newest result put first in the channel
WorkerDeliverNewestFirst ==
    /\ pc = "select"
    /\ pending' = <<fin.err>> \o pending
    /\ fin' = [fin EXCEPT !.i = @ + 1]
    /\ pc' = IF fin.i + 1 > Len(call.headers) THEN "returned" ELSE "idle"
    /\ UNCHANGED <<snap, heap, config, last, balance, extra, call, ret>>

\* select, case results <- err: the channel has room for every header
WorkerDeliver ==
    /\ pc = "select"
    /\ pending' = Append(pending, fin.err)
    /\ fin' = [fin EXCEPT !.i = @ + 1]
    /\ pc' = IF fin.i + 1 > Len(call.headers) THEN "returned" ELSE "idle"
    /\ UNCHANGED <<snap, heap, config, last, balance, extra, call, ret>>

\* select, case <-abort
WorkerAbort ==
    /\ pc = "select" /\ fin.abort
    /\ pc' = "returned"
    /\ UNCHANGED <<snap, heap, config, pending, last, balance, extra, fin, call, ret>>

\* the caller closes abort; at is the header the goroutine is at
CloseAbort ==
    /\ call.fn = "VerifyHeaders" /\ ~fin.abort
    /\ fin' = [fin EXCEPT !.abort = TRUE, !.at = fin.i]
    /\ UNCHANGED <<cacheVars, balance, extra, call, ret>>

\* the caller receives from results
ReceiveResult ==
    /\ call.fn = "VerifyHeaders" /\ Len(pending) > 0
    /\ ret' = [ret EXCEPT !.received = Append(@, Head(pending))]
    /\ pending' = Tail(pending)
    /\ UNCHANGED <<snap, heap, config, pc, last, balance, extra, fin, call>>

BatchNext ==
    WorkerVerify \/ WorkerDeliver \/ WorkerAbort \/ CloseAbort \/ ReceiveResult

BatchSpec == BatchInit /\ [][BatchNext]_vars

(***************************************************************************)
(* getSignerMissing on its own: the parent's signer queue, the coinbase of *)
(* the parent and the coinbase of the header.                              *)
(***************************************************************************)
SignerMissingCalls ==
    {[fn |-> "getSignerMissing", lastSigner |-> p, currentSigner |-> q,
      extra |-> [SignerQueue |-> queue]] :
        p \in Addrs, q \in Addrs,
        queue \in UNION {[1..n -> Addrs] : n \in 1..MaxLoopQueue}}

SignerMissingInit ==
    /\ CacheAtGenesis
    /\ balance = EmptyMap /\ extra = NoExtra /\ fin = NoFinalize
    /\ call \in SignerMissingCalls
    /\ ret = NoResult

CallGetSignerMissing ==
    /\ call.fn = "getSignerMissing" /\ ret = NoResult
    /\ ret' = [fn |-> "getSignerMissing",
               missing |-> getSignerMissing(call.lastSigner, call.currentSigner, call.extra)]
    /\ UNCHANGED <<cacheVars, balance, extra, fin, call>>

SignerMissingNext == CallGetSignerMissing

SignerMissingSpec == SignerMissingInit /\ [][SignerMissingNext]_vars

(***************************************************************************)
(* processEventConfirm on its own: the confirmations of the block so far,  *)
(* the chain below the block, the payload and its sender.                  *)
(***************************************************************************)
\* the block number field of a confirm payload, character by character
ConfirmNumberFields ==
    {Itoa(n) : n \in 0..(MaxConfirmHeight + 2)}
    \cup {<<"-">> \o Itoa(n) : n \in 1..2}
    \cup {<<"+", "1">>, <<"x">>, << >>}

ConfirmEventData ==
    {<<"ufo", "1", "event", "confirm", field>> : field \in ConfirmNumberFields}
    \cup {<<"ufo", "1", "event", "confirm">>}

\* the headers of blocks 0..number-1 as GetHeaderByNumber returns them
ConfirmEventChains(number) ==
    [1..number -> {[Extra |-> "undecodable"]}
                  \cup {[Extra |-> "decoded", SignerQueue |-> q] : q \in {<<11>>, <<11, 12>>}}]

ConfirmEventCalls(number) ==
    {[fn |-> "processEventConfirm", currentBlockConfirmations |-> confirmations,
      chain |-> chain, txDataInfo |-> data, number |-> number, confirmer |-> confirmer] :
        confirmations \in {<< >>, <<[Signer |-> 12, BlockNumber |-> 0]>>},
        chain \in ConfirmEventChains(number),
        data \in ConfirmEventData,
        confirmer \in {11, 12}}

ConfirmEventInit ==
    /\ config \in VoteConfigs
    /\ LET g == newSnapshot(config, GenesisHash, GenesisVotes(config), 1, config.GenesisTimestamp + 1)
       IN snap = g.s /\ heap = g.heap
    /\ pc = "idle" /\ pending = << >> /\ last = NoCall
    /\ balance = EmptyMap /\ extra = NoExtra /\ fin = NoFinalize
    /\ \E number \in 1..MaxConfirmHeight : call \in ConfirmEventCalls(number)
    /\ ret = NoResult

CallProcessEventConfirm ==
    /\ call.fn = "processEventConfirm" /\ ret = NoResult
    /\ LET r == processEventConfirm(call.currentBlockConfirmations, call.chain, config,
                                    call.txDataInfo, call.number, call.confirmer)
       IN ret' = [fn |-> "processEventConfirm", result |-> r.result,
                  confirmations |-> r.confirmations]
    /\ UNCHANGED <<cacheVars, balance, extra, fin, call>>

ConfirmEventNext == CallProcessEventConfirm

ConfirmEventSpec == ConfirmEventInit /\ [][ConfirmEventNext]_vars

(***************************************************************************)
(* The time of a header: verifyCascadingFields against the parent, and     *)
(* Prepare, which sets it.                                                 *)
(***************************************************************************)
\* verifyCascadingFields with the parent found and the parent snapshot s
\* returned by Alien.snapshot: the errors it can return
verifyCascadingFields(s, cfg, main, number, header, parent, signer) ==
    IF number = 0 THEN {"none"}
    ELSE IF parent.Number # number - 1 THEN {"ErrUnknownAncestor"}
    ELSE IF parent.Time > header.Time THEN {"ErrInvalidTimestamp"}
    ELSE verifySeal(s, cfg, main, number, header, parent, signer)

\* Prepare: the time of the header to be sealed on parent
Prepare(cfg, parent, now) ==
    IF parent.Time + cfg.Period < now THEN now ELSE parent.Time + cfg.Period

\* the nominal time of block number
BlockTime(cfg, number) == cfg.GenesisTimestamp + number * cfg.Period

SpacingCalls(cfg, number) ==
    {[fn |-> "verifyCascadingFields", cfg |-> cfg, number |-> number, s |-> s,
      header |-> header, parent |-> parent, signer |-> header.Coinbase] :
        s \in VerifySnapshots(cfg, number),
        parent \in [Number : {number - 1, number - 2},
                    Time : {BlockTime(cfg, number - 1)},
                    Coinbase : {11, 12},
                    Extra : [SignerQueue : {<< >>, <<11, 12>>, <<12, 11>>}]],
        header \in [Coinbase : {11, 12},
                    Time : (BlockTime(cfg, number - 1) - 1)..(BlockTime(cfg, number) + 1),
                    Extra : [SignerQueue : {<<11, 12>>, <<12, 11>>},
                             SignerMissing : SeqsUpTo({11, 12}, 1)]]}

PrepareCalls(cfg, number) ==
    {[fn |-> "Prepare", cfg |-> cfg, number |-> number,
      parent |-> [Number |-> number - 1, Time |-> BlockTime(cfg, number - 1)], now |-> now] :
        now \in (BlockTime(cfg, number - 1) - 1)..(BlockTime(cfg, number) + 1)}

SpacingInit ==
    /\ CacheAtGenesis
    /\ balance = EmptyMap /\ extra = NoExtra /\ fin = NoFinalize
    /\ \E number \in 1..MaxSpacingHeight :
          call \in SpacingCalls(VerifyConfig, number) \cup PrepareCalls(VerifyConfig, number)
    /\ ret = NoResult

CallVerifyCascadingFields ==
    /\ call.fn = "verifyCascadingFields" /\ ret = NoResult
    /\ \E e \in verifyCascadingFields(call.s, call.cfg, <<11>>, call.number, call.header,
                                      call.parent, call.signer) :
          ret' = [fn |-> "verifyCascadingFields", err |-> e]
    /\ UNCHANGED <<cacheVars, balance, extra, fin, call>>

CallPrepare ==
    /\ call.fn = "Prepare" /\ ret = NoResult
    /\ ret' = [fn |-> "Prepare", time |-> Prepare(call.cfg, call.parent, call.now)]
    /\ UNCHANGED <<cacheVars, balance, extra, fin, call>>

SpacingNext == CallVerifyCascadingFields \/ CallPrepare

SpacingSpec == SpacingInit /\ [][SpacingNext]_vars

(***************************************************************************)
(* A main chain built block by block: Finalize computes the HeaderExtra of *)
(* the next block from its parent and the parent snapshot, the header is   *)
(* applied, and verifySeal is asked about headers offered for the next     *)
(* height. fin holds the head of the chain and the confirmed block number  *)
(* of every header so far.                                                 *)
(***************************************************************************)
EpochConfigs ==
    [Period : {5}, Freeze : {10}, MaxSignerCount : {2, 5}, GenesisTimestamp : {1000},
     SelfVoteSigners : {<<11, 12>>}, SelfVoteValue : {StakeOf[11]}, AppId : {<< >>}]

\* Finalize on the main chain, the fields of currentHeaderExtra: the set of
\* outcomes createSignerQueue allows
FinalizeHeaderExtra(cfg, s, number, parent, coinbase, confirmations) ==
    LET inherited ==
            IF number = 1
            THEN [ConfirmedBlockNumber |-> 0, SignerQueue |-> << >>, LoopStartTime |-> 0,
                  SignerMissing |-> << >>]
            ELSE [ConfirmedBlockNumber |-> parent.Extra.ConfirmedBlockNumber,
                  SignerQueue |-> parent.Extra.SignerQueue,
                  LoopStartTime |-> parent.Extra.LoopStartTime,
                  SignerMissing |-> getSignerMissing(parent.Coinbase, coinbase, parent.Extra)]
        confirmed == [inherited EXCEPT !.ConfirmedBlockNumber =
                         getLastConfirmedBlockNumber(s, cfg, confirmations).value]
        first == IF number = 1
                 THEN [confirmed EXCEPT
                          !.LoopStartTime = cfg.GenesisTimestamp,
                          !.SignerQueue = [i \in 1..cfg.MaxSignerCount |->
                              cfg.SelfVoteSigners[((i - 1) % Len(cfg.SelfVoteSigners)) + 1]]]
                 ELSE confirmed
    IN IF number % cfg.MaxSignerCount = 0
       THEN {IF r.err # "none" THEN [err |-> r.err, extra |-> first]
             ELSE [err |-> "none",
                   extra |-> [first EXCEPT
                                 !.LoopStartTime = @ + cfg.Period * cfg.MaxSignerCount,
                                 !.SignerQueue = r.queue]] :
                r \in createSignerQueue(s, cfg, <<11>>)}
       ELSE {[err |-> "none", extra |-> first]}

\* the header of block number as its producer seals it
SealedHeader(number, time, coinbase, confirmations, e) ==
    [Number |-> number, Time |-> time, Coinbase |-> coinbase, Signer |-> coinbase,
     ExtraOK |-> TRUE, Hash |-> HeaderHash(number),
     Extra |-> [CurrentBlockConfirmations |-> confirmations,
                CurrentBlockVotes |-> << >>,
                CurrentBlockCancels |-> << >>,
                LoopStartTime |-> e.LoopStartTime,
                SignerQueue |-> e.SignerQueue,
                SignerMissing |-> e.SignerMissing,
                ConfirmedBlockNumber |-> e.ConfirmedBlockNumber]]

GenesisHeader(cfg) ==
    SealedHeader(0, cfg.GenesisTimestamp, NilAddress, << >>,
                 [ConfirmedBlockNumber |-> 0, SignerQueue |-> << >>, LoopStartTime |-> 0,
                  SignerMissing |-> << >>])

\* the confirmations the transactions of block number can carry
EpochConfirmations(number) ==
    {<< >>, <<[Signer |-> 11, BlockNumber |-> number - 1]>>,
     <<[Signer |-> 11, BlockNumber |-> number - 1], [Signer |-> 12, BlockNumber |-> number - 1]>>}

\* the times a producer seals the block after parent at: the next slot, or
\* the one after it when a signer missed its turn
EpochTimes(cfg, parent) == {parent.Time + cfg.Period, parent.Time + 2 * cfg.Period}

EpochInit ==
    /\ config \in EpochConfigs
    /\ LET g == newSnapshot(config, GenesisHash, GenesisVotes(config), 1, config.GenesisTimestamp + 1)
       IN snap = g.s /\ heap = g.heap
    /\ pc = "idle" /\ pending = << >> /\ last = NoCall
    /\ balance = EmptyMap /\ extra = NoExtra
    /\ fin = [number |-> 0, head |-> GenesisHeader(config), confirmed |-> <<0>>]
    /\ call = NoArgs /\ ret = NoResult

\* Prepare, Finalize and Seal of the next block by the signer in turn, and
\* its insertion: Alien.snapshot applies the header
FinalizeBlock ==
    /\ call.fn = "none" \/ ret.fn # "none"
    /\ fin.number < MaxEpochHeight
    /\ \E time \in EpochTimes(config, fin.head), coinbase \in {11, 12},
          confirmations \in EpochConfirmations(fin.number + 1) :
          /\ inturn(snap, config, coinbase, [Coinbase |-> coinbase, Time |-> time])
          /\ \E f \in FinalizeHeaderExtra(config, snap, fin.number + 1, fin.head, coinbase,
                                          confirmations) :
                /\ f.err = "none"
                /\ LET header == SealedHeader(fin.number + 1, time, coinbase, confirmations, f.extra)
                   IN \E o \in apply(snap, heap, config, <<header>>) :
                         /\ o.err = "none"
                         /\ LET r == Reachable(o.heap, o.s) IN snap' = r.s /\ heap' = r.heap
                         /\ fin' = [number |-> fin.number + 1, head |-> header,
                                    confirmed |-> Append(fin.confirmed,
                                                         f.extra.ConfirmedBlockNumber)]
    /\ call' = NoArgs /\ ret' = NoResult
    /\ UNCHANGED <<config, pc, pending, last, balance, extra>>

\* a header for the next height arrives: what Finalize computes, with the
\* loop start time and the confirmed block number as its producer chose them
OfferHeader ==
    /\ call.fn = "none"
    /\ fin.number < MaxEpochHeight
    /\ \E time \in EpochTimes(config, fin.head), coinbase \in {11, 12},
          confirmations \in EpochConfirmations(fin.number + 1),
          shift \in {0, config.Period}, lift \in {0, 1} :
          \E f \in FinalizeHeaderExtra(config, snap, fin.number + 1, fin.head, coinbase,
                                       confirmations) :
             /\ f.err = "none"
             /\ call' = [fn |-> "verifySeal",
                         header |-> SealedHeader(fin.number + 1, time, coinbase, confirmations,
                                       [f.extra EXCEPT !.LoopStartTime = @ + shift,
                                                       !.ConfirmedBlockNumber = @ + lift]),
                         finalized |-> FinalizeHeaderExtra(config, snap, fin.number + 1, fin.head,
                                                           coinbase, confirmations)]
    /\ UNCHANGED <<cacheVars, balance, extra, fin, ret>>

\* verifySeal of the offered header on the parent snapshot
VerifyOffered ==
    /\ call.fn = "verifySeal" /\ ret = NoResult
    /\ \E e \in verifySeal(snap, config, <<11>>, call.header.Number, call.header, fin.head,
                           call.header.Signer) :
          ret' = [fn |-> "verifySeal", err |-> e]
    /\ UNCHANGED <<cacheVars, balance, extra, fin, call>>

EpochNext == FinalizeBlock \/ OfferHeader \/ VerifyOffered

EpochSpec == EpochInit /\ [][EpochNext]_vars

(***************************************************************************)
(* API.GetSnapshotByHeaderTime: the search for the header whose slot holds *)
(* a target time. A chain is the sequence of its header times, block       *)
(* number n at index n + 1.                                                *)
(***************************************************************************)
\* Go's signed division: the quotient is truncated toward zero
TruncDiv(a, b) == IF a >= 0 THEN a \div b ELSE -((-a) \div b)

\* the loop of GetSnapshotByHeaderTime from the header at number on; steps
\* counts the headers looked at
RECURSIVE LookupLoop(_, _, _, _, _, _, _)
LookupLoop(times, period, targetTime, number, minN, maxN, steps) ==
    LET time == times[number + 1]
    IN IF targetTime >= time /\ targetTime < time + period
       THEN [err |-> "none", number |-> number, steps |-> steps]
       ELSE IF maxN = minN \/ maxN = minN + 1
       THEN [err |-> "errUnknownBlock", number |-> number, steps |-> steps]
       ELSE LET guess == (number + TruncDiv(targetTime - time, period)) % Uint64Mod
                nextN == IF guess >= maxN \/ guess <= minN THEN (maxN + minN) \div 2 ELSE guess
            IN IF nextN + 1 > Len(times)
               THEN [err |-> "errUnknownBlock", number |-> number, steps |-> steps]
               ELSE LET next == times[nextN + 1]
                    IN LookupLoop(times, period, targetTime, nextN,
                                  IF next < targetTime /\ nextN > minN THEN nextN ELSE minN,
                                  IF next >= targetTime /\ nextN < maxN THEN nextN ELSE maxN,
                                  steps + 1)

GetSnapshotByHeaderTime(times, period, targetTime) ==
    LET head == Len(times) - 1
    IN IF Len(times) = 0 \/ targetTime > times[head + 1] + period
       THEN [err |-> "errUnknownBlock", number |-> 0, steps |-> 0]
       ELSE LookupLoop(times, period, targetTime, head, 0, head, 1)

\* chains of n + 1 headers from block 0 at time first on, each header at the
\* time of its parent or up to two slots and a bit later
RECURSIVE LookupChains(_, _)
LookupChains(first, n) ==
    IF n = 0 THEN {<<first>>}
    ELSE {Append(c, c[Len(c)] + d) : c \in LookupChains(first, n - 1), d \in {0, 3, 5, 12}}

LookupCalls(n) ==
    {[fn |-> "GetSnapshotByHeaderTime", times |-> times, period |-> 5, targetTime |-> t] :
        times \in LookupChains(100, n), t \in 98..(100 + 12 * n + 7)}

LookupInit ==
    /\ CacheAtGenesis
    /\ balance = EmptyMap /\ extra = NoExtra /\ fin = NoFinalize
    /\ \E n \in 0..MaxLookupHead : call \in LookupCalls(n)
    /\ ret = NoResult

CallGetSnapshotByHeaderTime ==
    /\ call.fn = "GetSnapshotByHeaderTime" /\ ret = NoResult
    /\ LET r == GetSnapshotByHeaderTime(call.times, call.period, call.targetTime)
       IN ret' = [fn |-> call.fn, err |-> r.err, number |-> r.number, steps |-> r.steps]
    /\ UNCHANGED <<cacheVars, balance, extra, fin, call>>

LookupNext == CallGetSnapshotByHeaderTime

LookupSpec == LookupInit /\ [][LookupNext]_vars

(***************************************************************************)
(* Properties                                                              *)
(***************************************************************************)
Returned == pc = "done" /\ Len(last.headers) > 0
Succeeded == Returned /\ last.err = "none"
Failed == Returned /\ last.err \in Errors

\* C1: a successful apply leaves every field of the snapshot it was called
\* on, each candidate's vote list included, as it was before the call.
C1_SourceUntouched == Succeeded => last.srcAfter = last.srcBefore

\* C2: an apply that returns an error returns no snapshot and leaves every
\* field of the source snapshot, each candidate's vote list included, unchanged.
C2_AllOrNothing == Failed => last.result = NilSnapshot /\ last.srcAfter = last.srcBefore

Consecutive(headers, first) == \A i \in 1..Len(headers) : headers[i].Number = first + i - 1

ReplayFields(s) ==
    IF s = NilSnapshot THEN s
    ELSE [Votes |-> s.Votes, Voters |-> s.Voters, Tally |-> s.Tally, Cancels |-> s.Cancels,
          Cancelers |-> s.Cancelers, Candidates |-> s.Candidates, Punished |-> s.Punished,
          Confirmations |-> s.Confirmations, Number |-> s.Number, Hash |-> s.Hash]

\* C3: applying H1..Hn (n >= 2) in one call has the same outcome and yields
\* the same snapshot as applying them one header at a time.
C3_BatchEqualsStepwise ==
    (pc = "done" /\ Len(last.headers) >= 2
        /\ Consecutive(last.headers, last.srcBefore.Number + 1))
    => last.err = last.stepErr /\ ReplayFields(last.result) = ReplayFields(last.stepResult)

TallyOrZero(s, c) == IF c \in DOMAIN s.Tally THEN s.Tally[c] ELSE 0
VotersFor(s, c) == {v \in DOMAIN s.Votes : s.Votes[v].Candidate = c}
CancelersFor(s, c) == {v \in DOMAIN s.Cancels \cap DOMAIN s.Votes : s.Votes[v].Candidate = c}

\* C4: in a snapshot returned by a successful apply, tally[C] (0 when missing)
\* is the stake voted for C minus the stake of the cancelled votes for C.
C4_TallyWithCancels ==
    Succeeded => \A c \in Addrs :
        TallyOrZero(snap, c) = SumStake(snap.Votes, VotersFor(snap, c))
                               - SumStake(snap.Votes, CancelersFor(snap, c))

\* C5 as stated: every tally entry is the sum of the stakes voted for it.
C5_TallyIsVoteSum ==
    \A c \in DOMAIN snap.Tally : snap.Tally[c] = SumStake(snap.Votes, VotersFor(snap, c))

\* C5 with the cancelled votes taken off: in every snapshot, every tally entry
\* is the sum of the stakes voted for the candidate by voters that have no
\* entry in cancels.
C5_TallyIsLiveVoteSum ==
    \A c \in DOMAIN snap.Tally :
        snap.Tally[c] = SumStake(snap.Votes, VotersFor(snap, c) \ DOMAIN snap.Cancels)

\* an apply has returned a snapshot in which a candidate with a tally has a
\* cancelled vote and a live one
C5_Witness ==
    /\ Succeeded
    /\ \E c \in DOMAIN snap.Tally :
          /\ CancelersFor(snap, c) # {}
          /\ VotersFor(snap, c) \ DOMAIN snap.Cancels # {}
          /\ snap.Tally[c] # SumStake(snap.Votes, VotersFor(snap, c))

\* C6: cancels is within cancelers and votes, votes within voters, and
\* verifyTallyCnt never meets a cancel without a vote.
C6_KeySetCoherence ==
    /\ DOMAIN snap.Cancels \subseteq DOMAIN snap.Cancelers
    /\ DOMAIN snap.Cancels \subseteq DOMAIN snap.Votes
    /\ DOMAIN snap.Votes \subseteq DOMAIN snap.Voters
    /\ last.err # "panic: verifyTallyCnt"

\* an apply has garbage-collected one canceler of its source and returned a
\* snapshot that still holds a cancel
C6_Witness ==
    /\ Succeeded
    /\ DOMAIN snap.Cancels # {}
    /\ \E x \in DOMAIN last.srcBefore.Cancels :
          x \notin DOMAIN snap.Cancels /\ x \notin DOMAIN snap.Votes

\* apply has taken the first gathered header into its loop
Entered ==
    /\ pc = "pending" /\ Len(pending) >= 1
    /\ Consecutive(pending, snap.Number + 1)
    /\ pending[1].Signer = pending[1].Coinbase /\ pending[1].ExtraOK

\* the copy as updateSnapshotByVotes finds it for the first header
AtVotes == ApplyHeaderFields([s |-> copy(snap), heap |-> heap, err |-> "none"], config, pending[1])
\* the copy as updateSnapshotByCancels finds it for the first header
AtCancels == updateSnapshotByVotes(AtVotes, pending[1].Extra.CurrentBlockVotes, pending[1].Number)

Without(seq, i) == [k \in 1..(Len(seq) - 1) |-> IF k < i THEN seq[k] ELSE seq[k + 1]]

VoteView(o) ==
    IF o.err # "none" THEN [err |-> o.err]
    ELSE [err |-> o.err, Votes |-> o.s.Votes, Voters |-> o.s.Voters, Tally |-> o.s.Tally,
          Candidates |-> Observe(o.heap, o.s).Candidates]

\* C7: a Vote whose voter already has an entry in votes changes nothing: the
\* header yields the votes, voters, tally and candidates it yields without it.
C7_OneVotePerVoter ==
    Entered =>
        \A i \in 1..Len(pending[1].Extra.CurrentBlockVotes) :
            pending[1].Extra.CurrentBlockVotes[i].Voter \in DOMAIN snap.Votes
            => {VoteView(o) : o \in apply(snap, heap, config, pending)}
               = {VoteView(o) : o \in apply(snap, heap, config,
                      [pending EXCEPT ![1].Extra.CurrentBlockVotes = Without(@, i)])}

C7_Witness ==
    /\ Succeeded
    /\ \E i \in 1..Len(last.headers[1].Extra.CurrentBlockVotes) :
          LET v == last.headers[1].Extra.CurrentBlockVotes[i].Voter
          IN /\ v \in DOMAIN last.srcBefore.Cancels
             /\ v \in DOMAIN snap.Votes
             /\ snap.Votes[v] = last.srcBefore.Votes[v]

\* C8: a Vote(v, c, stake, h) of header N by a voter without a vote is skipped
\* when c is neither a candidate nor v; otherwise votes[v] is the vote,
\* voters[v] = N, the vote is appended to candidates[c] and tally[c] grows by
\* stake (is stake when c was no candidate).
C8_VoteApplication ==
    Entered =>
        LET votes == pending[1].Extra.CurrentBlockVotes
            N == pending[1].Number
        IN \A i \in 1..Len(votes) :
            LET pre == VotesLoop(AtVotes, SubSeq(votes, 1, i - 1), N, 1)
                vote == votes[i]
                post == ApplyVote(pre, vote, N)
            IN (pre.err = "none" /\ vote.Voter \notin DOMAIN pre.s.Votes) =>
                 IF ~isCandidate(pre.s, vote.Candidate) /\ vote.Candidate # vote.Voter
                 THEN post = pre
                 ELSE /\ post.err = "none"
                      /\ post.s.Votes[vote.Voter] = vote
                      /\ post.s.Voters[vote.Voter] = N
                      /\ CandidateVotes(post.heap, post.s, vote.Candidate)
                           = Append(IF isCandidate(pre.s, vote.Candidate)
                                    THEN CandidateVotes(pre.heap, pre.s, vote.Candidate)
                                    ELSE << >>, vote)
                      /\ post.s.Tally[vote.Candidate]
                           = IF isCandidate(pre.s, vote.Candidate)
                             THEN pre.s.Tally[vote.Candidate] + vote.Stake
                             ELSE vote.Stake

\* what one Cancel does to the snapshot
CancelStepOK(pre, cancel, post, N) ==
    LET x == cancel.Canceler IN
    IF x \in DOMAIN pre.s.Cancels THEN post = pre
    ELSE IF x \notin DOMAIN pre.s.Votes THEN post = pre
    ELSE LET c == pre.s.Votes[x].Candidate IN
         c \in DOMAIN pre.s.Tally =>
            /\ post.s.Tally = [pre.s.Tally EXCEPT ![c] = @ - pre.s.Votes[x].Stake]
            /\ post.s.Cancels = Put(pre.s.Cancels, x, [Canceler |-> x, Passive |-> cancel.Passive])
            /\ post.s.Cancelers = Put(pre.s.Cancelers, x, N)
            /\ post.s.Votes = pre.s.Votes
            /\ post.s.Voters = pre.s.Voters
            /\ post.s.Candidates = pre.s.Candidates /\ post.heap = pre.heap

RECURSIVE CancelStepsOK(_, _, _, _)
CancelStepsOK(m, cancels, N, i) ==
    \/ i > Len(cancels)
    \/ LET r == ApplyCancel(m, cancels, N, i)
       IN CancelStepOK(m, cancels[i], r.m, N) /\ CancelStepsOK(r.m, r.cancels, N, i + 1)

\* C9: a Cancel(x, passive) of header N by an x not in cancels, with a vote
\* whose candidate has a tally, lowers that tally by the stake of the vote,
\* records cancels[x] with the flag and cancelers[x] = N and keeps votes[x];
\* without a vote of x, or with x already cancelled, nothing changes.
C9_CancelApplication ==
    (Entered /\ AtCancels.err = "none")
    => CancelStepsOK(AtCancels, pending[1].Extra.CurrentBlockCancels, pending[1].Number, 1)

C9_Witness ==
    /\ Succeeded /\ Len(last.headers) = 1
    /\ \E x \in DOMAIN snap.Cancels :
          /\ x \notin DOMAIN last.srcBefore.Cancels
          /\ x \in DOMAIN last.srcBefore.Votes
          /\ ~snap.Cancels[x].Passive
          /\ snap.Cancelers[x] = snap.Number
          /\ snap.Votes[x] = last.srcBefore.Votes[x]
          /\ TallyOrZero(snap, snap.Votes[x].Candidate)
               < TallyOrZero(last.srcBefore, snap.Votes[x].Candidate)

\* the voters of candidate x, other than x, that are not cancelled yet
Cascaded(m, x) ==
    {w \in {CandidateVotes(m.heap, m.s, x)[k].Voter : k \in 1..m.s.Candidates[x].len} :
        w # x /\ w \notin DOMAIN m.s.Cancels}

\* C10: when a candidate x, not cancelled yet, cancels in header N, after that
\* header every voter w # x of candidates[x] that was not cancelled has
\* cancels[w] passive and cancelers[w] = N, tally[x] is lower by the stake of
\* x and of each such w, and the earlier cancel records are unchanged.
C10_CascadeCancel ==
    (/\ Entered /\ AtCancels.err = "none"
     /\ Len(pending[1].Extra.CurrentBlockCancels) = 1
     /\ isCandidate(AtCancels.s, pending[1].Extra.CurrentBlockCancels[1].Canceler)
     /\ pending[1].Extra.CurrentBlockCancels[1].Canceler \notin DOMAIN AtCancels.s.Cancels)
    => LET x == pending[1].Extra.CurrentBlockCancels[1].Canceler
           N == pending[1].Number
           pre == AtCancels
       IN \A post \in ApplyHeader([s |-> copy(snap), heap |-> heap, err |-> "none"],
                                  config, pending[1]) :
            /\ post.err = "none"
            /\ \A w \in Cascaded(pre, x) :
                  /\ w \in DOMAIN post.s.Cancels /\ w \in DOMAIN post.s.Cancelers
                  /\ post.s.Cancels[w] = [Canceler |-> w, Passive |-> TRUE]
                  /\ post.s.Cancelers[w] = N
            /\ TallyOrZero(post.s, x)
                 = TallyOrZero(pre.s, x) - SumStake(pre.s.Votes, Cascaded(pre, x) \cup {x})
            /\ \A w \in (DOMAIN pre.s.Cancels) \cap (DOMAIN post.s.Cancels) :
                  /\ post.s.Cancels[w] = pre.s.Cancels[w]
                  /\ post.s.Cancelers[w] = pre.s.Cancelers[w]

\* C13: in every snapshot punished[m] <= 10 * defaultFullCredit for every m.
C13_PunishCap ==
    \A m \in DOMAIN snap.Punished : snap.Punished[m] <= 10 * defaultFullCredit

\* the hashes of the blocks up to n, the genesis block first
AppliedHashes(n) == [i \in 1..(n + 1) |-> HeaderHash(i - 1)]

LastOf(seq, k) == SubSeq(seq, Len(seq) - k + 1, Len(seq))

\* C14: history_hash holds at most 2 * max_signer_count hashes: those of the
\* most recent applied headers, in order, the most recent last.
C14_HistoryHash ==
    /\ Len(snap.HistoryHash) <= 2 * config.MaxSignerCount
    /\ \E k \in 1..(2 * config.MaxSignerCount) :
          snap.HistoryHash = LastOf(AppliedHashes(snap.Number), k)
    /\ snap.Number + 1 >= 2 * config.MaxSignerCount
          => Len(snap.HistoryHash) = 2 * config.MaxSignerCount
    /\ snap.Number + 1 < 2 * config.MaxSignerCount
          => snap.HistoryHash = AppliedHashes(snap.Number)

\* the history has dropped hashes: more headers were applied than it holds
C14_Witness ==
    /\ snap.Number >= 4 * config.MaxSignerCount
    /\ Len(snap.HistoryHash) = 2 * config.MaxSignerCount
    /\ snap.HistoryHash[Len(snap.HistoryHash)] = HeaderHash(snap.Number)

\* loop_index as the specification writes it
SpecLoopIndex(s, cfg, time) == ((time - s.LoopStartTime) \div cfg.Period) % Len(s.Signers)

\* the queue position the code puts in turn at a header time
CodeLoopIndex(s, cfg, time) == LoopIndexU64(time, s.LoopStartTime, cfg.Period, Len(s.Signers))

\* C18: with |signers| > 0, inturn(signer, header) is true exactly when
\* header.coinbase = signer = signers[loop_index], and over max_signer_count
\* consecutive slots spaced by period each queue position is in turn once.
C18_InTurn ==
    (ret.fn = "inturn" /\ Len(call.s.Signers) > 0)
    => LET s == call.s
           n == Len(s.Signers)
       IN /\ SpecLoopIndex(s, call.cfg, call.header.Time) \in 0..(n - 1)
          /\ ret.value <=> (/\ call.header.Coinbase = call.signer
                            /\ call.signer = s.Signers[SpecLoopIndex(s, call.cfg, call.header.Time) + 1])
          /\ n = call.cfg.MaxSignerCount
                => \A pos \in 0..(n - 1) :
                      Cardinality({k \in 0..(n - 1) :
                          CodeLoopIndex(s, call.cfg, call.header.Time + k * call.cfg.Period) = pos}) = 1

\* C19: getLastConfirmedBlockNumber returns the highest block number in
\* [number - (2/3)*max_signer_count + 1, number] that strictly more than
\* (2/3)*max_signer_count distinct signers have confirmed (snapshot and
\* current block together), the lower end of that window when there is none,
\* and leaves the snapshot's confirmations as they were
Confirmers(c, n) ==
    (IF n \in DOMAIN c.s.Confirmations
     THEN {c.s.Confirmations[n][k] : k \in 1..Len(c.s.Confirmations[n])} ELSE {})
    \cup {c.confirmations[k].Signer :
            k \in {j \in 1..Len(c.confirmations) : c.confirmations[j].BlockNumber = n}}

SetMax(S) == CHOOSE x \in S : \A y \in S : y <= x

C19_ConfirmedNumber ==
    ret.fn = "getLastConfirmedBlockNumber" =>
        LET twoThirds == (call.cfg.MaxSignerCount * 2) \div 3
            low == call.s.Number - twoThirds + 1
            qualifying == {n \in low..call.s.Number : Cardinality(Confirmers(call, n)) > twoThirds}
        IN /\ ret.value = IF qualifying = {} THEN low ELSE SetMax(qualifying)
           /\ ret.Confirmations = call.s.Confirmations


QueueMade == ret.fn = "createSignerQueue" /\ ret.err = "none"
Recalculated == (call.s.Number + 1) % (call.cfg.MaxSignerCount * call.s.LCRS) = 0
PositiveTally(s) == {a \in DOMAIN s.Tally : s.Tally[a] > 0}
PairAddrs(pairs) == {pairs[i].addr : i \in 1..Len(pairs)}
Range(seq) == {seq[i] : i \in 1..Len(seq)}

\* the addresses createSignerQueue may select from
SelectionSource ==
    IF Recalculated /\ PositiveTally(call.s) # {} THEN PositiveTally(call.s)
    ELSE IF Recalculated THEN Range(call.main)
    ELSE Range(call.s.Signers)

\* the parts of the queue shape that hold for every selection
QueueWraps ==
    /\ Len(ret.queue) = call.cfg.MaxSignerCount
    /\ \A i \in 1..Len(ret.queue) : ret.queue[i] = ret.pairs[((i - 1) % Len(ret.pairs)) + 1].addr
    /\ \A i, j \in 1..Len(ret.pairs) : i < j => ret.pairs[i].hash > ret.pairs[j].hash
    /\ \A i \in 1..Len(ret.pairs) : ret.pairs[i].hash \in Range(call.s.HistoryHash)
    /\ PairAddrs(ret.pairs) \subseteq SelectionSource
    /\ Range(ret.queue) \subseteq PairAddrs(ret.pairs)

Credit(s, a) ==
    LET left == defaultFullCredit - (IF a \in DOMAIN s.Punished THEN s.Punished[a] ELSE 0)
    IN IF left > minCalSignerQueueCredit THEN left ELSE minCalSignerQueueCredit

Weight(s, a) == s.Tally[a] * Credit(s, a)

RanksBefore(s, a, b) == Weight(s, a) > Weight(s, b) \/ (Weight(s, a) = Weight(s, b) /\ a > b)

Elected(s, cfg) ==
    {a \in PositiveTally(s) :
        Cardinality({b \in PositiveTally(s) : RanksBefore(s, b, a)}) < cfg.MaxSignerCount}

C16_ElectionRanking ==
    (QueueMade /\ Recalculated /\ PositiveTally(call.s) # {}) =>
        /\ PairAddrs(ret.pairs) = Elected(call.s, call.cfg)
        /\ Len(ret.pairs) = Cardinality(Elected(call.s, call.cfg))

\* two candidates of equal weight at the cut-off, one of them punished
\* beyond default_full_credit: the larger address is selected
C16_Witness ==
    /\ QueueMade /\ Recalculated
    /\ \E a \in PairAddrs(ret.pairs) : \E b \in PositiveTally(call.s) \ PairAddrs(ret.pairs) :
          /\ Weight(call.s, a) = Weight(call.s, b) /\ a > b
          /\ a \in DOMAIN call.s.Punished /\ call.s.Punished[a] > defaultFullCredit

\* C17: createSignerQueue is a function of the snapshot and the
\* configuration: whatever the map iteration, the sort and the rest of the
\* node do, the result is the same
C17_Deterministic ==
    ret.fn = "createSignerQueue" =>
        \A main \in MainLists : \A o \in createSignerQueue(call.s, call.cfg, main) :
            o.err = ret.err /\ o.queue = ret.queue

\* C17 amended: createSignerQueue is a function of the snapshot, the
\* configuration and the main chain's signers
C17_DeterministicGivenMain ==
    ret.fn = "createSignerQueue" =>
        \A o \in createSignerQueue(call.s, call.cfg, call.main) :
            o.err = ret.err /\ o.queue = ret.queue

\* a recalculation among three candidates, two of equal weight, with room
\* for two
C17_Witness ==
    /\ QueueMade /\ Recalculated
    /\ call.cfg.MaxSignerCount = 2 /\ Cardinality(PositiveTally(call.s)) = 3
    /\ \E a, b \in PositiveTally(call.s) : a # b /\ Weight(call.s, a) = Weight(call.s, b)

\* C20: processEventVote appends Vote(sender, tx.to, stake, tx hash) and
\* debits the sender by the stake exactly when the stake field is a base-10
\* integer, the sender has no vote in the snapshot, the stake reaches
\* min_vote_value for a candidate recipient or self_vote_value for the
\* sender itself, the balance exceeds the stake and no pending vote is the
\* sender's; otherwise it returns with the pending votes and all balances
\* as they were
StakeParses(data) == Len(data) >= 5 /\ SetString(data[5]).ok

C20_Accepts ==
    LET tx == ret.tx
        stake == SetString(tx.Data[5]).value
    IN /\ StakeParses(tx.Data)
       /\ tx.Sender \notin DOMAIN snap.Votes
       /\ tx.Sender # tx.To => stake >= config.MinVoteValue /\ tx.To \in DOMAIN snap.Candidates
       /\ tx.Sender = tx.To => stake >= config.SelfVoteValue
       /\ ret.state[tx.Sender] > stake
       /\ \A k \in 1..Len(ret.votes) : ret.votes[k].Voter # tx.Sender

C20_VoteAcceptance ==
    ret.fn = "processEventVote" =>
        /\ ret.result = "returned"
        /\ IF C20_Accepts
           THEN /\ extra.CurrentBlockVotes =
                      Append(ret.votes, [Voter |-> ret.tx.Sender, Candidate |-> ret.tx.To,
                                         Stake |-> SetString(ret.tx.Data[5]).value,
                                         Hash |-> ret.tx.Hash])
                /\ balance = [ret.state EXCEPT ![ret.tx.Sender] = @ - SetString(ret.tx.Data[5]).value]
           ELSE extra.CurrentBlockVotes = ret.votes /\ balance = ret.state


\* blocks a cancelled vote stays frozen
FreezeBlocks == config.Freeze \div config.Period

\* C11: Finalize of block N credits exactly the cancelers whose cancel was
\* recorded at N - freeze/period (active) or at N - 1 (passive), and the
\* header numbered c + freeze/period removes the vote, the voter, the cancel
\* and the canceler of an active cancel recorded at c
C11_UnfreezeTiming ==
    /\ fin.stage = "sealed" =>
          fin.credited = {x \in DOMAIN snap.Cancels :
                             IF snap.Cancels[x].Passive THEN fin.number = snap.Cancelers[x] + 1
                             ELSE fin.number = snap.Cancelers[x] + FreezeBlocks}
    /\ (fin.stage = "inserted" /\ fin.number > 0) =>
          \A x \in DOMAIN fin.Cancels :
              (~fin.Cancels[x].Passive /\ fin.number = fin.Cancelers[x] + FreezeBlocks) =>
                  /\ x \notin DOMAIN snap.Votes /\ x \notin DOMAIN snap.Voters
                  /\ x \notin DOMAIN snap.Cancels /\ x \notin DOMAIN snap.Cancelers

\* C12: with freeze/period >= 1, a stake that was locked is credited back
\* once: never more than was locked, and in full by the time the header that
\* removes the vote has been applied
C12_StakeReturnedOnce ==
    FreezeBlocks >= 1 =>
        /\ \A x \in Addrs : fin.owed[x] >= 0
        /\ fin.stage = "inserted" => \A x \in Addrs : x \notin DOMAIN snap.Votes => fin.owed[x] = 0

\* the punished values once the missing signers are punished, before any
\* credit is recovered
AfterMissing == PunishMissingLoop(call.s.Punished, call.signerMissing, 1)

\* what is left of a punished value v after r is recovered: an entry with
\* v - r, or no entry when that is not positive
Recovered(post, a, v, r) ==
    IF v - r > 0 THEN a \in DOMAIN post /\ post[a] = v - r ELSE a \notin DOMAIN post

\* C30: the coinbase recovers exactly signRewardCredit if it was above it and
\* loses its entry otherwise, every other punished address recovers exactly
\* autoRewardCredit, and no entry is stored with value 0
C30_CreditRecovery ==
    ret.fn = "updateSnapshotForPunish" =>
        /\ DOMAIN ret.Punished \subseteq DOMAIN AfterMissing
        /\ \A a \in DOMAIN AfterMissing :
              Recovered(ret.Punished, a, AfterMissing[a],
                        IF a = call.coinbase THEN signRewardCredit ELSE autoRewardCredit)
        /\ \A a \in DOMAIN ret.Punished : ret.Punished[a] # 0

\* C30 amended: the coinbase recovers signRewardCredit and then, like every
\* punished address, autoRewardCredit
C30_CreditRecoveryOfAll ==
    ret.fn = "updateSnapshotForPunish" =>
        /\ DOMAIN ret.Punished \subseteq DOMAIN AfterMissing
        /\ \A a \in DOMAIN AfterMissing :
              Recovered(ret.Punished, a, AfterMissing[a],
                        IF a = call.coinbase THEN signRewardCredit + autoRewardCredit
                        ELSE autoRewardCredit)
        /\ \A a \in DOMAIN ret.Punished : ret.Punished[a] # 0

\* a coinbase that keeps an entry, next to an address that loses its own
C30_Witness ==
    /\ ret.fn = "updateSnapshotForPunish"
    /\ call.coinbase \in DOMAIN ret.Punished
    /\ \E a \in DOMAIN AfterMissing : a # call.coinbase /\ a \notin DOMAIN ret.Punished
    /\ \E a \in DOMAIN ret.Punished : a # call.coinbase /\ a \in Range(call.signerMissing)

\* C28: apply fails with errInvalidVotingChain when the header numbers are
\* not consecutive or do not start at the snapshot's number + 1; apply of no
\* header returns the snapshot itself; a successful apply returns a snapshot
\* with the number and the hash of the last header
C28_ApplyPreconditions ==
    pc = "done" =>
        /\ Len(last.headers) = 0 => last.err = "none" /\ last.result = last.srcBefore
        /\ (Len(last.headers) > 0 /\ ~Consecutive(last.headers, last.srcBefore.Number + 1))
              => last.err = "errInvalidVotingChain"
        /\ (Len(last.headers) > 0 /\ last.err = "none") =>
              /\ last.result.Number = last.headers[Len(last.headers)].Number
              /\ last.result.Hash = last.headers[Len(last.headers)].Hash

\* two headers with a gap between them were refused, after a batch of two
\* had been applied
C28_Witness ==
    /\ pc = "done" /\ Len(last.headers) = 2
    /\ last.headers[2].Number = last.headers[1].Number + 2
    /\ last.err = "errInvalidVotingChain"
    /\ last.srcBefore.Number >= 2

SelfVote(x) == [Voter |-> x, Candidate |-> x, Stake |-> config.SelfVoteValue, Hash |-> 0]

\* what the claim says of the snapshot of block 0 and of the balances
SelfVoted ==
    /\ \A x \in Addrs :
          /\ x \in DOMAIN snap.Votes /\ snap.Votes[x] = SelfVote(x)
          /\ x \in DOMAIN snap.Tally /\ snap.Tally[x] = config.SelfVoteValue
          /\ x \in DOMAIN snap.Candidates
          /\ \E k \in 1..Len(CandidateVotes(heap, snap, x)) : CandidateVotes(heap, snap, x)[k] = SelfVote(x)
          /\ balance[x] = fin.before[x] - config.SelfVoteValue
    /\ Len(snap.Signers) = config.MaxSignerCount
    /\ \A i \in 1..Len(snap.Signers) :
          snap.Signers[i] = config.SelfVoteSigners[((i - 1) % Len(config.SelfVoteSigners)) + 1]

ThreeSignersFunded ==
    /\ Len(config.SelfVoteSigners) = 3
    /\ \A i, j \in 1..3 : i # j => config.SelfVoteSigners[i] # config.SelfVoteSigners[j]
    /\ \A a \in Addrs : fin.before[a] >= config.SelfVoteValue

\* C29: with three distinct self-vote signers that each hold at least
\* SelfVoteValue, once block 1 is finalized the snapshot of block 0 holds a
\* self-vote of SelfVoteValue for each of them in votes, tally and candidates,
\* each balance is debited SelfVoteValue once, and signers has MaxSignerCount
\* entries cycling through the configured list.
C29_GenesisSelfVote == (fin.number = 1 /\ ThreeSignersFunded) => SelfVoted

\* C29, the case in which Finalize is the first to ask for the snapshot of
\* block 0 and block 1 carries no vote: there all of the above holds.
C29_GenesisSelfVoteFromFinalize ==
    (fin.number = 1 /\ ThreeSignersFunded /\ ~VoteReadsSnapshot(fin.txs)
     /\ snap.Votes # EmptyMap) => SelfVoted

C29_Witness ==
    fin.number = 1 /\ ThreeSignersFunded /\ ~VoteReadsSnapshot(fin.txs) /\ SelfVoted

\* a transaction that carries no intent: its sender cannot be recovered or
\* its payload is truncated or malformed
NoIntent(tx) == tx.SenderErr \/ tx.Data \in TruncatedData \cup MalformedData

Truncated(tx) == ~tx.SenderErr /\ tx.Data \in TruncatedData

\* the outcome of processCustomTx on the block without those transactions
WithoutNoIntent ==
    processCustomTx(snap, config, call.chain, call.number,
        [result |-> "returned", extra |-> NoExtra, state |-> [a \in Addrs |-> 11]],
        SelectSeq(call.txs, LAMBDA tx : ~NoIntent(tx)), 1)

Skipped ==
    /\ ret.result = "returned"
    /\ extra = WithoutNoIntent.extra
    /\ balance = WithoutNoIntent.state

\* C21: whatever the transactions of the block, processCustomTx completes
\* normally, and the votes, cancels, confirmations and balances it leaves
\* are those of the block without its truncated and malformed transactions:
\* such a transaction emits nothing, changes no balance and does not stop
\* the transactions after it.
C21_SkippedNeverFatal == ret.fn = "processCustomTx" => Skipped

\* C21 for blocks in which no event lacks its argument: there it holds.
C21_SkippedWhenArgumentPresent ==
    (ret.fn = "processCustomTx" /\ \A i \in 1..Len(call.txs) : ~Truncated(call.txs[i])) => Skipped

C21_Witness ==
    /\ ret.fn = "processCustomTx" /\ Len(call.txs) = 2
    /\ call.txs[1].Data \in MalformedData /\ call.txs[2].Data \in WellFormedData
    /\ Skipped /\ extra # NoExtra

MainChainReward == ret.fn = "accumulateRewards" /\ ~call.cfg.SideChain

Distributed == SumOver(ret.rewards, DOMAIN ret.rewards)

Undistributed == ret.blockReward - ret.minerReward - Distributed

\* the voters whose vote names the coinbase and who have no entry in cancelers
NamingCoinbase(s, coinbase) ==
    {voter \in DOMAIN s.Votes :
        s.Votes[voter].Candidate = coinbase /\ voter \notin DOMAIN s.Cancelers}

\* what the claim says apart from the size of the remainder
SharesWithinReward ==
    /\ MainChainReward =>
          /\ ret.result = "returned"
          /\ ret.minerReward + Distributed <= ret.blockReward
          /\ DOMAIN ret.rewards = NamingCoinbase(call.s, call.header.Coinbase)
          /\ \A a \in Addrs :
                balance[a] = (IF a \in DOMAIN ret.rewards THEN ret.rewards[a] ELSE 0)
                             + (IF a = call.header.Coinbase THEN ret.minerReward ELSE 0)
    /\ ret.fn = "calculateReward" =>
          /\ ret.result = "returned"
          /\ SumOver(ret.rewards, DOMAIN ret.rewards) <= call.votersReward
          /\ call.s.Number > RewardCutOff =>
                DOMAIN ret.rewards = NamingCoinbase(call.s, call.coinbase)

Sealed == ret.fn = "Seal" /\ ret.block = "signed"

NotSealed ==
    ret.fn = "Seal" /\ ret.block # "signed" => ret.seal = 0 /\ (ret.err # "none" \/ ret.block = "nil")

\* C23: Seal returns a signed block only if the local signer is the coinbase
\* of the header and the signer at loop_index in the queue of the parent
\* snapshot; every other call returns an error or no block and leaves the
\* seal slot without a signature.
C23_OnlyInTurnSeals ==
    /\ Sealed => /\ call.signer = call.header.Coinbase
                 /\ call.signer = snap.Signers[SpecLoopIndex(snap, config, call.header.Time) + 1]
    /\ NotSealed

\* C23 on the main chain for header times from loop_start_time on: there it
\* holds.
C23_OnlyInTurnSealsFromLoopStart ==
    (~config.SideChain /\ call.header.Time >= snap.LoopStartTime) => C23_OnlyInTurnSeals

C23_Witness ==
    /\ Sealed /\ ~config.SideChain /\ call.header.Time >= snap.LoopStartTime
    /\ call.signer = snap.Signers[SpecLoopIndex(snap, config, call.header.Time) + 1]

TimeReached == fin.now >= call.header.Time

Accepted == ret.fn = "verifySeal" /\ ret.err = "none"

\* the queue a header must carry: the output of createSignerQueue on the
\* parent snapshot at a loop boundary, the queue of the parent otherwise
QueueAsRequired ==
    IF call.number % call.cfg.MaxSignerCount = 0
    THEN \E r \in createSignerQueue(call.s, call.cfg, <<11>>) :
            r.err = "none" /\ call.header.Extra.SignerQueue = r.queue
    ELSE call.header.Extra.SignerQueue = call.parent.Extra.SignerQueue

MissingAsRequired ==
    call.header.Extra.SignerMissing
        = getSignerMissing(call.parent.Coinbase, call.header.Coinbase, call.parent.Extra)

\* C25: a main-chain header that verifySeal accepts carries the signer queue
\* createSignerQueue gives on the parent snapshot at a loop boundary and the
\* queue of its parent otherwise, and the signer_missing list recomputed
\* from the parent; a header that does not is rejected with
\* errInvalidSignerQueue or errPunishedMissing.
C25_QueueVerified ==
    /\ Accepted => QueueAsRequired /\ MissingAsRequired
    /\ (ret.fn = "verifySeal" /\ call.signer # NilAddress /\ ~(QueueAsRequired /\ MissingAsRequired))
          => ret.err \in {"errInvalidSignerQueue", "errPunishedMissing"}

\* C25 for headers above max_signer_count that carry max_signer_count
\* entries: accepted only with the required queue and missing list.
C25_QueueVerifiedAboveFirstLoop ==
    (Accepted /\ call.number > call.cfg.MaxSignerCount
     /\ Len(call.header.Extra.SignerQueue) = call.cfg.MaxSignerCount)
        => QueueAsRequired /\ MissingAsRequired

\* the results so far, received or still in the channel
Delivered == ret.received \o pending

Verdict(i) == verifyHeader(call.headers, i, call.now)

InInputOrder ==
    /\ Len(Delivered) <= Len(call.headers)
    /\ \A i \in 1..Len(Delivered) : Delivered[i] = Verdict(i)

\* the headers of the batch that fail, and the first of them
Failing == {i \in 1..Len(call.headers) : Verdict(i) # "nil"}

FirstErrorFirst ==
    \A i \in 1..Len(Delivered) :
        (Delivered[i] # "nil" /\ \A k \in 1..(i - 1) : Delivered[k] = "nil")
            => i \in Failing /\ \A k \in Failing : i <= k

\* C26: the results of a batch come in the order of the headers, the first
\* result that is an error is the error of the first header that fails, and
\* no header after that one is verified or reported valid.
C26_StopsAtFirstError ==
    /\ InInputOrder
    /\ FirstErrorFirst
    /\ \A j \in fin.started : \A i \in Failing : j <= i

\* C26 as the code has it: the order and the first error as above; the
\* goroutine does not stop at an error, and unless abort is closed it
\* verifies every header of the batch and delivers a result for each.
C26_ResultsInOrder ==
    /\ InInputOrder
    /\ FirstErrorFirst
    /\ (pc = "returned" /\ ~fin.abort) =>
          /\ fin.started = 1..Len(call.headers)
          /\ Len(Delivered) = Len(call.headers)

C26_Witness ==
    /\ pc = "returned" /\ ~fin.abort /\ Len(call.headers) = 3
    /\ Delivered[1] = "errInvalidMixDigest" /\ Delivered[2] = "nil" /\ Delivered[3] # "nil"

\* C27: once abort is closed the goroutine starts to verify no header
\* beyond the one it is at, and delivers no result for such a header.
C27_AbortStops ==
    fin.abort => /\ \A j \in fin.late : j <= fin.at
                 /\ Len(Delivered) <= fin.at

\* C27 for a goroutine that takes the abort case of its select: from then
\* on it verifies and delivers nothing.
C27_AbortTakenStops ==
    [][(pc = "returned" /\ fin.abort) => (fin'.started = fin.started /\ Delivered' = Delivered)]_vars

\* the members of the queue after position p and before position q, going
\* round the queue
Between(queue, p, q) ==
    [k \in 1..((q - p - 1) % Len(queue)) |-> queue[((p + k - 1) % Len(queue)) + 1]]

Positions(queue, a) == {i \in 1..Len(queue) : queue[i] = a}

\* C31: getSignerMissing returns exactly the members of the queue strictly
\* between the previous coinbase and the current coinbase in the cyclic
\* order of the queue, for some position of each when the queue repeats
\* addresses, also when the current coinbase stands before the previous one.
C31_SignerMissingCyclic ==
    (ret.fn = "getSignerMissing"
        /\ Positions(call.extra.SignerQueue, call.lastSigner) # {}
        /\ Positions(call.extra.SignerQueue, call.currentSigner) # {})
    => \E p \in Positions(call.extra.SignerQueue, call.lastSigner),
          q \in Positions(call.extra.SignerQueue, call.currentSigner) :
            ret.missing = Between(call.extra.SignerQueue, p, q)

\* C31 without the wrap-around: with the previous coinbase once in the
\* queue and the current coinbase first met after it, the result is the
\* members between the two.
C31_SignerMissingInOneLoop ==
    (ret.fn = "getSignerMissing"
        /\ \E p \in 1..Len(call.extra.SignerQueue) :
              /\ Positions(call.extra.SignerQueue, call.lastSigner) = {p}
              /\ \E q \in Positions(call.extra.SignerQueue, call.currentSigner) : q > p
              /\ \A q \in Positions(call.extra.SignerQueue, call.currentSigner) : q > p)
    => LET p == CHOOSE i \in Positions(call.extra.SignerQueue, call.lastSigner) : TRUE
           q == CHOOSE i \in Positions(call.extra.SignerQueue, call.currentSigner) :
                    \A j \in Positions(call.extra.SignerQueue, call.currentSigner) : i <= j
       IN ret.missing = Between(call.extra.SignerQueue, p, q)

\* the machines removeExtraVotesAndCancel finds for header k of the
\* gathered headers: the copy after the headers before k and after the
\* confirmations, votes, cancels and punishments of header k
BeforeGC(k) ==
    {[m4 EXCEPT !.s = updateSnapshotForPunish(m4.s, pending[k].Extra.SignerMissing,
                                              pending[k].Number, pending[k].Coinbase)] :
        m4 \in {updateSnapshotByCancels(m3, pending[k].Extra.CurrentBlockCancels, pending[k].Number) :
                  m3 \in {n3 \in {updateSnapshotByVotes(ApplyHeaderFields(m, config, pending[k]),
                                                        pending[k].Extra.CurrentBlockVotes,
                                                        pending[k].Number) :
                                    m \in {n \in HeadersLoop({[s |-> copy(snap), heap |-> heap, err |-> "none"]},
                                                             config, SubSeq(pending, 1, k - 1), 1) :
                                              n.err = "none"}} :
                            n3.err = "none"}}}

\* the freeze of x has elapsed, as the claim states it
FreezeOver(s, cfg, x) ==
    IF s.Cancels[x].Passive THEN s.Number > s.Cancelers[x] + 1
    ELSE s.Number + 1 - s.Cancelers[x] >= cfg.Freeze \div cfg.Period

NotBy(votes, x) == SelectSeq(votes, LAMBDA v : v.Voter # x)

Collected(pre, x, post) ==
    /\ post.err = "none"
    /\ post.s.Votes = Del(pre.s.Votes, x)
    /\ post.s.Voters = Del(pre.s.Voters, x)
    /\ post.s.Cancels = Del(pre.s.Cancels, x)
    /\ post.s.Cancelers = Del(pre.s.Cancelers, x)
    /\ post.s.Tally = pre.s.Tally
    /\ IF isCandidate(pre.s, x)
       THEN /\ post.s.Punished = Del(pre.s.Punished, x)
            /\ Observe(post.heap, post.s).Candidates
                 = Del(Observe(pre.heap, pre.s).Candidates, x)
       ELSE /\ post.s.Punished = pre.s.Punished
            /\ Observe(post.heap, post.s).Candidates
                 = [c \in DOMAIN pre.s.Candidates |->
                       IF c = pre.s.Votes[x].Candidate
                       THEN NotBy(CandidateVotes(pre.heap, pre.s, c), x)
                       ELSE CandidateVotes(pre.heap, pre.s, c)]

RECURSIVE CollectedInOrder(_, _, _, _)
CollectedInOrder(m, cfg, order, i) ==
    \/ i > Len(order)
    \/ LET post == RemoveCanceler(m, cfg, order[i])
       IN /\ IF FreezeOver(m.s, cfg, order[i]) THEN Collected(m, order[i], post)
             ELSE post = m
          /\ CollectedInOrder(post, cfg, order, i + 1)

Gathered == pc = "pending" /\ Len(pending) >= 1 /\ Consecutive(pending, snap.Number + 1)

\* C32: garbage collection deletes votes, voters, cancels and cancelers of
\* every canceler whose freeze has elapsed in one step, with candidates[x]
\* and punished[x] for a candidate and with x's entry of the list of its
\* candidate otherwise, all other entries kept in order; a cancel whose
\* freeze has not elapsed is left as it is.
C32_GarbageCollection ==
    Gathered =>
        \A k \in 1..Len(pending) : \A m \in BeforeGC(k) :
            \A order \in Perms(DOMAIN m.s.Cancels) : CollectedInOrder(m, config, order, 1)

\* no list of candidates holds two votes of one voter
OneEntryEach(m) ==
    \A c \in DOMAIN m.s.Candidates :
        \A i, j \in 1..Len(CandidateVotes(m.heap, m.s, c)) :
            CandidateVotes(m.heap, m.s, c)[i].Voter = CandidateVotes(m.heap, m.s, c)[j].Voter => i = j

\* C32 for the first header a call of apply takes, where the number of the
\* snapshot is the number of the parent, with lists that hold one vote of
\* each voter.
C32_GarbageCollectionOfFirstHeader ==
    Gathered =>
        \A m \in BeforeGC(1) :
            OneEntryEach(m) =>
                \A order \in Perms(DOMAIN m.s.Cancels) : CollectedInOrder(m, config, order, 1)

\* the copy after the votes and the cancels of the first header
AtPunish ==
    IF AtCancels.err # "none" THEN AtCancels
    ELSE updateSnapshotByCancels(AtCancels, pending[1].Extra.CurrentBlockCancels, pending[1].Number)

\* vote i of the first header is one updateSnapshotByVotes records: the
\* first of a voter without a vote, for a candidate or for the voter itself
Recorded(i) ==
    LET votes == pending[1].Extra.CurrentBlockVotes IN
    /\ votes[i].Voter \notin DOMAIN AtVotes.s.Votes
    /\ \A k \in 1..(i - 1) : votes[k].Voter # votes[i].Voter
    /\ isCandidate(AtVotes.s, votes[i].Candidate) \/ votes[i].Candidate = votes[i].Voter

CancelledInHeader(a) ==
    \E j \in 1..Len(pending[1].Extra.CurrentBlockCancels) :
        pending[1].Extra.CurrentBlockCancels[j].Canceler = a

VoteThenCancel(i) ==
    LET vote == pending[1].Extra.CurrentBlockVotes[i]
        v == vote.Voter
        A == vote.Candidate
    IN /\ CancelledInHeader(v) =>
            /\ AtPunish.err = "none"
            /\ v \in DOMAIN AtPunish.s.Votes /\ AtPunish.s.Votes[v] = vote
            /\ v \in DOMAIN AtPunish.s.Cancels
            /\ AtPunish.s.Cancelers[v] = pending[1].Number
       /\ (/\ v # A /\ CancelledInHeader(A)
           /\ isCandidate(AtVotes.s, A) /\ A \notin DOMAIN AtVotes.s.Cancels) =>
            /\ AtPunish.err = "none"
            /\ v \in DOMAIN AtPunish.s.Cancels
            /\ AtPunish.s.Cancelers[v] = pending[1].Number
            /\ ~CancelledInHeader(v) => AtPunish.s.Cancels[v].Passive

\* C33: the votes of a header are applied before its cancels: a Vote and a
\* Cancel of one voter in one header leave the vote recorded and cancelled
\* at the number of the header, and a Vote for a candidate whose own Cancel
\* is in the same header is cancelled passively by the cascade.
C33_VotesBeforeCancels ==
    Entered => \A i \in 1..Len(pending[1].Extra.CurrentBlockVotes) : Recorded(i) => VoteThenCancel(i)

\* C33 for a candidate that has a tally entry.
C33_VotesBeforeCancelsWithTally ==
    Entered =>
        \A i \in 1..Len(pending[1].Extra.CurrentBlockVotes) :
            (/\ Recorded(i)
             /\ isCandidate(AtVotes.s, pending[1].Extra.CurrentBlockVotes[i].Candidate)
                  => pending[1].Extra.CurrentBlockVotes[i].Candidate \in DOMAIN AtVotes.s.Tally)
            => VoteThenCancel(i)

\* the ways an integer is written in decimal
Numerals(n) ==
    IF n < 0 THEN {<<"-">> \o Itoa(0 - n)}
    ELSE {Itoa(n), <<"+">> \o Itoa(n)} \cup (IF n = 0 THEN {<<"-", "0">>} ELSE {})

\* the payload names block n
Names(n) == Len(call.txDataInfo) > posEventConfirmNumber
            /\ call.txDataInfo[posEventConfirmNumber + 1] \in Numerals(n)

\* block n may be confirmed by the sender at block call.number
Confirmable(n) ==
    /\ 0 <= n /\ n <= call.number
    /\ call.number - n <= config.MaxSignerCount
    /\ n + 1 \in DOMAIN call.chain
    /\ call.chain[n + 1].Extra = "decoded"
    /\ \E k \in 1..Len(call.chain[n + 1].SignerQueue) :
          call.chain[n + 1].SignerQueue[k] = call.confirmer

ConfirmRange == (0 - 2)..(MaxConfirmHeight + 2)

\* C34: processEventConfirm appends Confirmation(sender, n) only for a
\* payload whose number field is the integer n with 0 <= n <= number,
\* number - n <= max_signer_count, a header at n that decodes and names the
\* sender in its signer queue; for every other field given, negative,
\* above the number, too old or no integer, the list comes back unchanged.
C34_ConfirmBounds ==
    (ret.fn = "processEventConfirm" /\ Len(call.txDataInfo) > posEventConfirmNumber)
    => /\ ret.result = "returned"
       /\ IF \E n \in ConfirmRange : Names(n) /\ Confirmable(n)
          THEN \E n \in ConfirmRange :
                  /\ Names(n) /\ Confirmable(n)
                  /\ ret.confirmations = Append(call.currentBlockConfirmations,
                                                [Signer |-> call.confirmer, BlockNumber |-> n])
          ELSE ret.confirmations = call.currentBlockConfirmations

\* the sender has confirmed the oldest block it may confirm
C34_Witness ==
    /\ ret.fn = "processEventConfirm"
    /\ Len(ret.confirmations) = 2 /\ ret.confirmations[2].BlockNumber = call.number - 2

\* C35: a header other than the genesis header whose time is lower than the
\* time of its parent plus the period is rejected with ErrInvalidTimestamp.
C35_MinimumSpacing ==
    (/\ ret.fn = "verifyCascadingFields"
     /\ call.parent.Number = call.number - 1
     /\ call.header.Time < call.parent.Time + call.cfg.Period)
    => ret.err = "ErrInvalidTimestamp"

\* C35 as far as the code goes: a header timed before its parent is
\* rejected with ErrInvalidTimestamp, and the time Prepare sets is at least
\* the time of the parent plus the period.
C35_NotBeforeParent ==
    /\ (/\ ret.fn = "verifyCascadingFields"
        /\ call.parent.Number = call.number - 1
        /\ call.header.Time < call.parent.Time)
       => ret.err = "ErrInvalidTimestamp"
    /\ ret.fn = "Prepare" => ret.time >= call.parent.Time + call.cfg.Period

\* C36: a main-chain header verifySeal accepts carries the loop start time
\* and the confirmed block number Finalize computes from its parent, the
\* parent snapshot and its confirmations.
C36_EpochFieldsVerified ==
    (ret.fn = "verifySeal" /\ ret.err = "none")
    => \E f \in call.finalized :
          /\ f.err = "none"
          /\ call.header.Extra.LoopStartTime = f.extra.LoopStartTime
          /\ call.header.Extra.ConfirmedBlockNumber = f.extra.ConfirmedBlockNumber

\* what Finalize itself writes: the loop start time of the parent, raised by
\* period * max_signer_count exactly at the heights divisible by
\* max_signer_count, and the genesis timestamp in block 1
C36_FinalizeEpochFields ==
    fin.number >= 1 =>
        fin.head.Extra.LoopStartTime
          = config.GenesisTimestamp
            + config.Period * config.MaxSignerCount * (fin.number \div config.MaxSignerCount)

\* C39: the confirmed block number Finalize writes is at least the one of
\* the parent header and at most the height of the parent.
C39_ConfirmedNeverBackwards ==
    \A n \in 2..Len(fin.confirmed) :
        /\ fin.confirmed[n] >= fin.confirmed[n - 1]
        /\ fin.confirmed[n] <= n - 2

\* C39 without the first blocks: from the height (2/3) * max_signer_count
\* on the confirmed block number does not move backwards, and it never
\* exceeds the height of the parent.
C39_ConfirmedNeverBackwardsLater ==
    \A n \in 2..Len(fin.confirmed) :
        /\ n - 2 >= (config.MaxSignerCount * 2) \div 3 => fin.confirmed[n] >= fin.confirmed[n - 1]
        /\ fin.confirmed[n] <= n - 2

\* the target time of the call lies in the slot of block n
InSlot(n) ==
    /\ call.times[n + 1] <= call.targetTime
    /\ call.targetTime < call.times[n + 1] + call.period

\* C37: GetSnapshotByHeaderTime ends after looking at no more headers than
\* the chain has, a snapshot it returns is the one of a block whose slot
\* holds the target time, and when the chain has such a block, block 0
\* included, it returns one.
C37_LookupByHeaderTime ==
    ret.fn = "GetSnapshotByHeaderTime" =>
        /\ ret.steps <= Len(call.times)
        /\ ret.err = "none" => InSlot(ret.number)
        /\ (\E n \in 0..(Len(call.times) - 1) : InSlot(n)) => ret.err = "none"

\* C37 without block 0: the search ends, what it returns is right, and a
\* block above the genesis block whose slot holds the target time is found.
C37_LookupAboveGenesis ==
    ret.fn = "GetSnapshotByHeaderTime" =>
        /\ ret.steps <= Len(call.times)
        /\ ret.err = "none" => InSlot(ret.number)
        /\ (\E n \in 1..(Len(call.times) - 1) : InSlot(n)) => ret.err = "none"

\* C38: every candidate of a snapshot has a tally entry, and a Vote for a
\* candidate by a voter without a vote completes and raises the tally of the
\* candidate by the stake.
C38_CandidateHasTally ==
    /\ snap # NilSnapshot => DOMAIN snap.Candidates \subseteq DOMAIN snap.Tally
    /\ Entered =>
          LET votes == pending[1].Extra.CurrentBlockVotes
              N == pending[1].Number
          IN \A i \in 1..Len(votes) :
              LET pre == VotesLoop(AtVotes, SubSeq(votes, 1, i - 1), N, 1)
                  vote == votes[i]
                  post == ApplyVote(pre, vote, N)
              IN (pre.err = "none" /\ vote.Voter \notin DOMAIN pre.s.Votes
                    /\ isCandidate(pre.s, vote.Candidate)) =>
                     /\ vote.Candidate \in DOMAIN pre.s.Tally
                     /\ post.err = "none"
                     /\ post.s.Tally[vote.Candidate] = pre.s.Tally[vote.Candidate] + vote.Stake

\* the snapshot of block 0 as newSnapshot builds it from the genesis votes
\* of Finalize of block 1
GenesisWithVotes ==
    newSnapshot(config, GenesisHash, FinalizeGenesisVotes(config, fin.before, {}, 1), 1,
                config.GenesisTimestamp + 1)

\* C40: whoever asked for the snapshot of block 0 first, the snapshot that
\* Finalize of block 1 receives holds the genesis votes, their tally and
\* their candidates; one built earlier without the genesis votes is not used
\* in its place.
C40_GenesisWhoeverAsksFirst ==
    fin.number = 1 =>
        /\ snap.Votes = GenesisWithVotes.s.Votes
        /\ snap.Tally = GenesisWithVotes.s.Tally
        /\ DOMAIN snap.Candidates = DOMAIN GenesisWithVotes.s.Candidates
        /\ \A c \in DOMAIN snap.Candidates :
              CandidateVotes(heap, snap, c)
                = CandidateVotes(GenesisWithVotes.heap, GenesisWithVotes.s, c)

\* C40 when Finalize of block 1 is the first to ask and block 1 carries no
\* vote: the snapshot of block 0 is built from the genesis votes.
C40_GenesisWhenFinalizeAsksFirst ==
    (fin.number = 1 /\ ~VoteReadsSnapshot(fin.txs)
     /\ (snap.Votes # EmptyMap \/ GenesisWithVotes.s.Votes = EmptyMap)) =>
        /\ snap.Votes = GenesisWithVotes.s.Votes
        /\ snap.Tally = GenesisWithVotes.s.Tally
        /\ DOMAIN snap.Candidates = DOMAIN GenesisWithVotes.s.Candidates

====
